---- MODULE Spec2Model ----
(***************************************************************************)
(* Model of eslint-plugin-class-validator-type-match: the type helpers     *)
(* (classification, complexity, utility unwrapping, nullable unions, the   *)
(* decorator contract matcher) and the decorator-type-match rule.          *)
(*                                                                         *)
(* A type annotation is a TSESTree.TypeNode, modelled as a record          *)
(*   [type, text, typeName, kids]                                          *)
(* type     the node's discriminant (TSStringKeyword, TSArrayType, ...)     *)
(* text     the operator of a TSTypeOperator, or the kind of the literal   *)
(*          of a TSLiteralType ("string", "number", "boolean", "bigint",    *)
(*          or "UnaryExpression" for a literal that is no Literal node)     *)
(* typeName <<entity>> for a TSTypeReference, <<>> otherwise; an entity is  *)
(*          an Identifier or a left-nested TSQualifiedName                  *)
(* kids     element type, member types, or type arguments                  *)
(***************************************************************************)
EXTENDS Integers, Sequences, FiniteSets, TLC

VARIABLES typeNode, checker, decorators, call, reports, field, fixLoop, stack

vars == <<typeNode, checker, decorators, call, reports, field, fixLoop, stack>>

(***************************************************************************)
(* Bounds of the model.                                                    *)
(***************************************************************************)
\* members of a union, intersection or tuple
MaxMembers == 3
\* wrappers (array, readonly, utility type) nested around a first-level type
MaxNest == 1
\* nodes for which the type checker has an answer of its own
MaxOracleEntries == 1
MaxDecorators == 2

MaxStack == 12

(***************************************************************************)
(* JavaScript null (for string | null results) and the null node.          *)
(***************************************************************************)
NULL == "<null>"

Truthy(s) == s # NULL /\ s # ""

Node(t, x, n, k) == [type |-> t, text |-> x, typeName |-> n, kids |-> k]

NullNode == Node("<null>", "", <<>>, <<>>)

Keyword(t) == Node(t, "", <<>>, <<>>)

Identifier(n) == [type |-> "Identifier", name |-> n, left |-> <<>>]

TSQualifiedName(l, r) == [type |-> "TSQualifiedName", name |-> r, left |-> <<l>>]

TSTypeReference(entity, args) == Node("TSTypeReference", "", <<entity>>, args)

Ref(n) == TSTypeReference(Identifier(n), <<>>)

Generic(n, args) == TSTypeReference(Identifier(n), args)

TSArrayType(e) == Node("TSArrayType", "", <<>>, <<e>>)

TSTypeOperator(op, e) == Node("TSTypeOperator", op, <<>>, <<e>>)

TSTupleType(es) == Node("TSTupleType", "", <<>>, es)

TSNamedTupleMember(e) == Node("TSNamedTupleMember", "", <<>>, <<e>>)

TSUnionType(ts) == Node("TSUnionType", "", <<>>, ts)

TSIntersectionType(ts) == Node("TSIntersectionType", "", <<>>, ts)

TSLiteralType(kind) == Node("TSLiteralType", kind, <<>>, <<>>)

StringT == Keyword("TSStringKeyword")
NumberT == Keyword("TSNumberKeyword")
BooleanT == Keyword("TSBooleanKeyword")
NullT == Keyword("TSNullKeyword")
UndefinedT == Keyword("TSUndefinedKeyword")
AnyT == Keyword("TSAnyKeyword")
TemplateT == Keyword("TSTemplateLiteralType")
TypeLiteralT == Keyword("TSTypeLiteral")

(***************************************************************************)
(* The decorator contract table.                                           *)
(***************************************************************************)
TYPE_AGNOSTIC_DECORATORS ==
  {"IsOptional", "ValidateNested", "IsDefined", "IsEmpty", "IsNotEmpty", "Equals",
   "NotEquals", "IsIn", "IsNotIn", "Type", "Exclude", "Expose", "Transform"}

StringValidators ==
  {"IsString", "IsAlpha", "IsAlphanumeric", "IsAscii", "IsBase32", "IsBase64", "IsBIC",
   "IsBtcAddress", "IsByteLength", "IsCreditCard", "IsCurrency", "IsDataURI", "IsDecimal",
   "IsEmail", "IsEthereumAddress", "IsFQDN", "IsFirebasePushId", "IsFullWidth",
   "IsHalfWidth", "IsHash", "IsHexColor", "IsHSL", "IsIBAN", "IsIdentityCard", "IsIP",
   "IsIPRange", "IsISBN", "IsISIN", "IsISO8601", "IsISO31661Alpha2", "IsISO31661Alpha3",
   "IsISO4217CurrencyCode", "IsISSN", "IsJSON", "IsJWT", "IsLatLong", "IsLocale",
   "IsLowercase", "IsMACAddress", "IsMD5", "IsMimeType", "IsMilitaryTime", "IsMobilePhone",
   "IsMongoId", "IsMultibyte", "IsNumberString", "IsOctal", "IsPassportNumber",
   "IsPhoneNumber", "IsPort", "IsPostalCode", "IsRFC3339", "IsRgbColor", "IsSemVer",
   "IsStrongPassword", "IsSurrogatePair", "IsTimeZone", "IsUppercase", "IsUrl", "IsUUID",
   "IsVariableWidth", "IsHexadecimal", "Length", "MaxLength", "MinLength", "Matches",
   "Contains", "NotContains", "IsDateString"}

NumberValidators ==
  {"IsNumber", "IsInt", "IsPositive", "IsNegative", "IsDivisibleBy", "IsLatitude",
   "IsLongitude", "Min", "Max"}

DateValidators == {"IsDate", "MinDate", "MaxDate"}

ArrayValidators ==
  {"IsArray", "ArrayMinSize", "ArrayMaxSize", "ArrayContains", "ArrayNotContains",
   "ArrayNotEmpty", "ArrayUnique"}

ObjectValidators == {"IsObject", "IsNotEmptyObject", "IsInstance"}

TrackedDecorators ==
  StringValidators \cup NumberValidators \cup {"IsBoolean"} \cup DateValidators
    \cup ArrayValidators \cup ObjectValidators \cup {"IsEnum"}

\* decoratorTypeMap[d]; <<>> stands for undefined (d is no key of the table)
decoratorTypeMap(d) ==
  IF d \in StringValidators THEN <<"string">>
  ELSE IF d \in NumberValidators THEN <<"number">>
  ELSE IF d = "IsBoolean" THEN <<"boolean">>
  ELSE IF d \in DateValidators THEN <<"Date">>
  ELSE IF d \in ArrayValidators THEN <<"array", "Array">>
  ELSE IF d \in ObjectValidators THEN <<"object">>
  ELSE IF d = "IsEnum" THEN <<"enum", "union-literal", "type-reference">>
  ELSE <<>>

Range(s) == {s[i] : i \in DOMAIN s}

(***************************************************************************)
(* The type checker (oracle).  checker.present is FALSE when the rule got  *)
(* no parser services (checker and esTreeNodeMap null).  Otherwise the     *)
(* checker's view of a node is checker.entries' answer for that node, or   *)
(* checker.default:                                                        *)
(*   "unmapped"  esTreeNodeMap.get(node) is undefined                      *)
(*   "throws"    getTypeAtLocation throws                                  *)
(*   "String", "Number", "Boolean"   the type's flags                      *)
(*   "Array", "Tuple"                isArrayType / objectFlags & 8         *)
(*   "Enum", "EnumLiteral"           the type's flags                      *)
(*   "Other"     a type with none of these                                 *)
(***************************************************************************)
NoChecker == [present |-> FALSE, default |-> "Other", entries |-> <<>>]

\* checker.entries is a function from nodes to answers
TypeAtLocation(oracle, node) ==
  IF node \in DOMAIN oracle.entries THEN oracle.entries[node] ELSE oracle.default

(***************************************************************************)
(* Type helpers.                                                           *)
(***************************************************************************)
\* a variant of unwrapReadonlyOperator: one readonly operator is taken off
UnwrapReadonlyOnce(node) ==
  IF node.type = "TSTypeOperator" /\ node.text = "readonly" /\ node.kids # <<>>
    THEN node.kids[1]
    ELSE node

RECURSIVE unwrapReadonlyOperator(_)
unwrapReadonlyOperator(node) ==
  IF node.type = "TSTypeOperator" /\ node.text = "readonly"
    THEN IF node.kids = <<>> THEN node ELSE unwrapReadonlyOperator(node.kids[1])
    ELSE node

\* a variant of NullableLoop: a second base member is passed over
RECURSIVE NullableLoopKeepFirst(_, _, _)
NullableLoopKeepFirst(types, i, st) ==
  IF i > Len(types)
    THEN IF st.baseType # NullNode /\ (st.hasNull \/ st.hasUndefined)
           THEN [isNullable |-> TRUE, baseType |-> st.baseType]
           ELSE [isNullable |-> FALSE, baseType |-> NullNode]
    ELSE IF types[i].type = "TSNullKeyword"
      THEN NullableLoopKeepFirst(types, i + 1, [st EXCEPT !.hasNull = TRUE])
    ELSE IF types[i].type = "TSUndefinedKeyword"
      THEN NullableLoopKeepFirst(types, i + 1, [st EXCEPT !.hasUndefined = TRUE])
    ELSE IF st.baseType = NullNode
      THEN NullableLoopKeepFirst(types, i + 1, [st EXCEPT !.baseType = types[i]])
    ELSE NullableLoopKeepFirst(types, i + 1, st)

\* the loop of isNullableUnion from member i on; st = [baseType, hasNull, hasUndefined]
RECURSIVE NullableLoop(_, _, _)
NullableLoop(types, i, st) ==
  IF i > Len(types)
    THEN IF st.baseType # NullNode /\ (st.hasNull \/ st.hasUndefined)
           THEN [isNullable |-> TRUE, baseType |-> st.baseType]
           ELSE [isNullable |-> FALSE, baseType |-> NullNode]
    ELSE IF types[i].type = "TSNullKeyword"
      THEN NullableLoop(types, i + 1, [st EXCEPT !.hasNull = TRUE])
    ELSE IF types[i].type = "TSUndefinedKeyword"
      THEN NullableLoop(types, i + 1, [st EXCEPT !.hasUndefined = TRUE])
    ELSE IF st.baseType = NullNode
      THEN NullableLoop(types, i + 1, [st EXCEPT !.baseType = types[i]])
    ELSE [isNullable |-> FALSE, baseType |-> NullNode]

isNullableUnion(node) ==
  IF node.type # "TSUnionType"
    THEN [isNullable |-> FALSE, baseType |-> NullNode]
    ELSE NullableLoop(node.kids, 1,
                      [baseType |-> NullNode, hasNull |-> FALSE, hasUndefined |-> FALSE])

RECURSIVE Join(_, _)
Join(parts, sep) ==
  IF parts = <<>> THEN ""
  ELSE IF Len(parts) = 1 THEN parts[1]
  ELSE parts[1] \o sep \o Join(Tail(parts), sep)

\* a variant of QualifiedParts: the right names are pushed, not unshifted
RECURSIVE QualifiedPartsPushed(_, _)
QualifiedPartsPushed(current, parts) ==
  IF current.type = "TSQualifiedName"
    THEN QualifiedPartsPushed(current.left[1], parts \o <<current.name>>)
    ELSE IF current.type = "Identifier" THEN parts \o <<current.name>> ELSE parts

\* the while loop of getTypeReferenceName: unshift the right names walking left
RECURSIVE QualifiedParts(_, _)
QualifiedParts(current, parts) ==
  IF current.type = "TSQualifiedName"
    THEN QualifiedParts(current.left[1], <<current.name>> \o parts)
    ELSE IF current.type = "Identifier" THEN <<current.name>> \o parts ELSE parts

getTypeReferenceName(entity) ==
  IF entity.type = "Identifier" THEN entity.name
  ELSE IF entity.type = "TSQualifiedName" THEN Join(QualifiedParts(entity, <<>>), ".")
  ELSE ""

\* a variant of resolveTypeWithChecker: a failed query is taken for an array
ResolveFailureAsArray(node, oracle) ==
  IF ~oracle.present THEN NULL
  ELSE LET t == TypeAtLocation(oracle, node) IN
    IF t = "String" THEN "string"
    ELSE IF t = "Number" THEN "number"
    ELSE IF t = "Boolean" THEN "boolean"
    ELSE "array"

resolveTypeWithChecker(node, oracle) ==
  IF ~oracle.present THEN NULL
  ELSE LET t == TypeAtLocation(oracle, node) IN
    IF t = "unmapped" THEN NULL
    ELSE IF t = "throws" THEN NULL
    ELSE IF t = "String" THEN "string"
    ELSE IF t = "Number" THEN "number"
    ELSE IF t = "Boolean" THEN "boolean"
    ELSE IF t = "Array" THEN "array"
    ELSE IF t = "Tuple" THEN "array"
    ELSE NULL

IsPrimitiveName(s) == s \in {"string", "number", "boolean"}

RECURSIVE getTypeString(_, _)
RECURSIVE IntersectionPrimitive(_, _, _)

\* a variant of IntersectionPrimitive: the last primitive member wins
IntersectionPrimitiveLast(types, i, oracle) ==
  LET hits == {j \in i..Len(types) : IsPrimitiveName(getTypeString(types[j], oracle))} IN
  IF hits = {} THEN NULL
  ELSE getTypeString(types[CHOOSE j \in hits : \A k \in hits : k <= j], oracle)

\* the loop over an intersection's members: the first primitive category, or NULL
IntersectionPrimitive(types, i, oracle) ==
  IF i > Len(types) THEN NULL
  ELSE LET typeStr == getTypeString(types[i], oracle) IN
    IF IsPrimitiveName(typeStr) THEN typeStr
    ELSE IntersectionPrimitive(types, i + 1, oracle)

getTypeString(node, oracle) ==
  LET resolved == resolveTypeWithChecker(node, oracle)
      unwrapped == unwrapReadonlyOperator(node)
  IN
  IF oracle.present /\ Truthy(resolved) THEN resolved
  ELSE IF unwrapped.type = "TSStringKeyword" THEN "string"
  ELSE IF unwrapped.type = "TSNumberKeyword" THEN "number"
  ELSE IF unwrapped.type = "TSBooleanKeyword" THEN "boolean"
  ELSE IF unwrapped.type = "TSArrayType" THEN "array"
  ELSE IF unwrapped.type = "TSTupleType" THEN "array"
  ELSE IF unwrapped.type = "TSTemplateLiteralType" THEN "string"
  ELSE IF unwrapped.type = "TSTypeReference" THEN getTypeReferenceName(unwrapped.typeName[1])
  ELSE IF unwrapped.type = "TSTypeLiteral" THEN "object"
  ELSE IF unwrapped.type = "TSUnionType" THEN "union"
  ELSE IF unwrapped.type = "TSLiteralType"
    THEN IF unwrapped.text \in {"string", "number", "boolean"} THEN unwrapped.text
         ELSE "literal"
  ELSE IF unwrapped.type = "TSIntersectionType"
    THEN LET p == IntersectionPrimitive(unwrapped.kids, 1, oracle) IN
         IF p # NULL THEN p ELSE "intersection"
  ELSE NULL

IsArrayReference(unwrapped) ==
  /\ unwrapped.type = "TSTypeReference"
  /\ unwrapped.typeName[1].type = "Identifier"
  /\ unwrapped.typeName[1].name \in {"Array", "ReadonlyArray"}

getArrayElementTypeNode(typeAnnotation) ==
  LET unwrapped == unwrapReadonlyOperator(typeAnnotation) IN
  IF unwrapped.type = "TSArrayType" THEN unwrapped.kids[1]
  ELSE IF IsArrayReference(unwrapped) /\ unwrapped.kids # <<>> THEN unwrapped.kids[1]
  ELSE NullNode

getTupleElementTypes(typeAnnotation) ==
  LET unwrapped == unwrapReadonlyOperator(typeAnnotation) IN
  IF unwrapped.type = "TSTupleType"
    THEN [i \in DOMAIN unwrapped.kids |->
            IF unwrapped.kids[i].type = "TSNamedTupleMember"
              THEN unwrapped.kids[i].kids[1]
              ELSE unwrapped.kids[i]]
    ELSE <<>>

isUnionOfLiterals(node) ==
  IF node.type = "TSUnionType"
    THEN \A i \in DOMAIN node.kids : node.kids[i].type = "TSLiteralType"
    ELSE FALSE

isRecordWithPrimitiveValue(node, oracle) ==
  LET unwrapped == unwrapReadonlyOperator(node) IN
  IF unwrapped.type # "TSTypeReference" THEN FALSE
  ELSE IF getTypeReferenceName(unwrapped.typeName[1]) # "Record" THEN FALSE
  ELSE IF Len(unwrapped.kids) < 2 THEN FALSE
  ELSE IsPrimitiveName(getTypeString(unwrapped.kids[2], oracle))

supportedUtilityTypes ==
  {"Partial", "Required", "Pick", "Omit", "Readonly", "NonNullable", "Extract", "Exclude",
   "ReadonlyArray"}

NoUtility == [found |-> FALSE, utilityType |-> "", typeArgument |-> NullNode,
              allTypeArguments |-> <<>>]

\* getUtilityTypeArgument; found = FALSE stands for the null result
getUtilityTypeArgument(node) ==
  LET unwrapped == unwrapReadonlyOperator(node) IN
  IF unwrapped.type # "TSTypeReference" THEN NoUtility
  ELSE LET name == getTypeReferenceName(unwrapped.typeName[1]) IN
    IF name \notin supportedUtilityTypes THEN NoUtility
    ELSE IF unwrapped.kids = <<>> THEN NoUtility
    ELSE [found |-> TRUE, utilityType |-> name, typeArgument |-> unwrapped.kids[1],
          allTypeArguments |-> unwrapped.kids]

\* a variant of unwrapUtilityTypeForClassName: one wrapper is taken off
UnwrapOnce(node) ==
  IF getUtilityTypeArgument(node).found THEN getUtilityTypeArgument(node).typeArgument
  ELSE node

RECURSIVE unwrapUtilityTypeForClassName(_)
unwrapUtilityTypeForClassName(node) ==
  LET utilityInfo == getUtilityTypeArgument(node) IN
  IF ~utilityInfo.found THEN node
  ELSE unwrapUtilityTypeForClassName(utilityInfo.typeArgument)

(***************************************************************************)
(* analyzeUnionType and isComplexType call each other.  The copy of        *)
(* isComplexType private to rules/decorator-type-match.ts has no enum      *)
(* check; enumCheck selects the variant.                                   *)
(***************************************************************************)
RECURSIVE ComplexImpl(_, _, _)
RECURSIVE AnalyzeLoop(_, _, _, _, _)

EmptyAnalysis ==
  [isNullable |-> FALSE, hasMultiplePrimitives |-> FALSE, hasMultipleComplexTypes |-> FALSE,
   hasMixedComplexity |-> FALSE, nonNullTypes |-> <<>>, primitiveTypes |-> <<>>,
   complexTypes |-> <<>>]

\* a variant of AnalyzeLoop: a member that is not complex counts as a primitive
\* even when it has no category
RECURSIVE AnalyzeLoopCountAll(_, _, _, _, _)
AnalyzeLoopCountAll(types, i, result, oracle, enumCheck) ==
  IF i > Len(types) THEN result
  ELSE IF types[i].type \in {"TSNullKeyword", "TSUndefinedKeyword"}
    THEN AnalyzeLoopCountAll(types, i + 1, [result EXCEPT !.isNullable = TRUE], oracle, enumCheck)
  ELSE LET pushed == [result EXCEPT !.nonNullTypes = Append(@, types[i])]
           typeStr == getTypeString(types[i], oracle)
       IN
    IF ComplexImpl(types[i], oracle, enumCheck)
      THEN AnalyzeLoopCountAll(types, i + 1,
                               [pushed EXCEPT !.complexTypes = Append(@, types[i])],
                               oracle, enumCheck)
    ELSE AnalyzeLoopCountAll(types, i + 1,
                             [pushed EXCEPT !.primitiveTypes =
                                Append(@, IF Truthy(typeStr) THEN typeStr ELSE "unknown")],
                             oracle, enumCheck)

\* the for loop of analyzeUnionType from member i on
AnalyzeLoop(types, i, result, oracle, enumCheck) ==
  IF i > Len(types) THEN result
  ELSE IF types[i].type \in {"TSNullKeyword", "TSUndefinedKeyword"}
    THEN AnalyzeLoop(types, i + 1, [result EXCEPT !.isNullable = TRUE], oracle, enumCheck)
  ELSE LET pushed == [result EXCEPT !.nonNullTypes = Append(@, types[i])]
           typeStr == getTypeString(types[i], oracle)
       IN
    IF ComplexImpl(types[i], oracle, enumCheck)
      THEN AnalyzeLoop(types, i + 1, [pushed EXCEPT !.complexTypes = Append(@, types[i])],
                       oracle, enumCheck)
    ELSE IF Truthy(typeStr)
      THEN AnalyzeLoop(types, i + 1, [pushed EXCEPT !.primitiveTypes = Append(@, typeStr)],
                       oracle, enumCheck)
    ELSE AnalyzeLoop(types, i + 1, pushed, oracle, enumCheck)

AnalyzeImpl(node, oracle, enumCheck) ==
  IF node.type # "TSUnionType" THEN EmptyAnalysis
  ELSE LET result == AnalyzeLoop(node.kids, 1, EmptyAnalysis, oracle, enumCheck) IN
    [result EXCEPT
       !.hasMultiplePrimitives = Len(result.primitiveTypes) > 1,
       !.hasMultipleComplexTypes = Len(result.complexTypes) > 1,
       !.hasMixedComplexity = Len(result.primitiveTypes) > 0 /\ Len(result.complexTypes) > 0]

builtInTypes == {"String", "Number", "Boolean", "Date"}

nonValidatableTypes == {"Promise", "Map", "Set"}

\* the enum check of the shared isComplexType: the reference resolves to an enum
IsEnumReference(unwrapped, oracle) ==
  /\ oracle.present
  /\ TypeAtLocation(oracle, unwrapped) \in {"Enum", "EnumLiteral"}

\* a variant of UnionComplex: any member other than null/undefined makes it complex
UnionComplexAnyMember(unwrapped, oracle, enumCheck) ==
  Len(AnalyzeImpl(unwrapped, oracle, enumCheck).nonNullTypes) > 0

\* the union branch of isComplexType
UnionComplex(unwrapped, oracle, enumCheck) ==
  Len(AnalyzeImpl(unwrapped, oracle, enumCheck).complexTypes) > 0

\* the tuple branch of isComplexType
TupleComplex(unwrapped, oracle, enumCheck) ==
  LET elements == getTupleElementTypes(unwrapped) IN
  \E i \in DOMAIN elements : ComplexImpl(elements[i], oracle, enumCheck)

\* a variant of UtilityComplex: Pick and Omit always make an object type
UtilityComplexPickIsObject(unwrapped, utilityTypeInfo, oracle, enumCheck) ==
  IF utilityTypeInfo.utilityType \in {"Pick", "Omit"} THEN TRUE
  ELSE ComplexImpl(utilityTypeInfo.typeArgument, oracle, enumCheck)

\* a variant of UtilityComplex: the checker is asked for all five mapped wrappers
UtilityComplexResolveAll(unwrapped, utilityTypeInfo, oracle, enumCheck) ==
  LET resolved == resolveTypeWithChecker(unwrapped, oracle) IN
  IF /\ utilityTypeInfo.utilityType \in {"Partial", "Required", "Readonly", "Pick", "Omit"}
     /\ Truthy(resolved)
    THEN resolved \notin {"string", "number", "boolean", "Date"}
    ELSE ComplexImpl(utilityTypeInfo.typeArgument, oracle, enumCheck)

\* the branch of isComplexType for a reference getUtilityTypeArgument recognises
UtilityComplex(unwrapped, utilityTypeInfo, oracle, enumCheck) ==
  IF utilityTypeInfo.utilityType = "ReadonlyArray"
    THEN ComplexImpl(utilityTypeInfo.typeArgument, oracle, enumCheck)
  ELSE IF utilityTypeInfo.utilityType \in {"Partial", "Required", "Readonly", "Pick", "Omit"}
    THEN LET resolved == resolveTypeWithChecker(unwrapped, oracle) IN
      IF oracle.present /\ utilityTypeInfo.utilityType \in {"Pick", "Omit"} /\ Truthy(resolved)
        THEN resolved \notin {"string", "number", "boolean", "Date"}
        ELSE ComplexImpl(utilityTypeInfo.typeArgument, oracle, enumCheck)
  ELSE \* NonNullable, Extract, Exclude
    ComplexImpl(utilityTypeInfo.typeArgument, oracle, enumCheck)

\* a variant of ReferenceComplex: Array<T> is not looked into
ReferenceComplexNoArray(unwrapped, oracle, enumCheck) ==
  LET typeName == getTypeReferenceName(unwrapped.typeName[1])
      utilityTypeInfo == getUtilityTypeArgument(unwrapped)
  IN
  IF typeName \in nonValidatableTypes THEN FALSE
  ELSE IF enumCheck /\ IsEnumReference(unwrapped, oracle) THEN FALSE
  ELSE IF utilityTypeInfo.found
    THEN UtilityComplex(unwrapped, utilityTypeInfo, oracle, enumCheck)
  ELSE IF isRecordWithPrimitiveValue(unwrapped, oracle) THEN FALSE
  ELSE IF typeName \in builtInTypes THEN FALSE
  ELSE TRUE

\* the TSTypeReference branch of isComplexType
ReferenceComplex(unwrapped, oracle, enumCheck) ==
  LET typeName == getTypeReferenceName(unwrapped.typeName[1])
      utilityTypeInfo == getUtilityTypeArgument(unwrapped)
  IN
  IF typeName \in nonValidatableTypes THEN FALSE
  ELSE IF enumCheck /\ IsEnumReference(unwrapped, oracle) THEN FALSE
  ELSE IF utilityTypeInfo.found
    THEN UtilityComplex(unwrapped, utilityTypeInfo, oracle, enumCheck)
  ELSE IF isRecordWithPrimitiveValue(unwrapped, oracle) THEN FALSE
  ELSE IF typeName = "Array" /\ unwrapped.kids # <<>>
    THEN ComplexImpl(unwrapped.kids[1], oracle, enumCheck)
  ELSE IF typeName \in builtInTypes THEN FALSE
  ELSE TRUE

ComplexImpl(node, oracle, enumCheck) ==
  LET unwrapped == unwrapReadonlyOperator(node) IN
  IF unwrapped.type = "TSTypeLiteral" THEN TRUE
  ELSE IF isUnionOfLiterals(unwrapped) THEN FALSE
  ELSE IF unwrapped.type = "TSUnionType" THEN UnionComplex(unwrapped, oracle, enumCheck)
  ELSE IF unwrapped.type = "TSIntersectionType"
    THEN IntersectionPrimitive(unwrapped.kids, 1, oracle) = NULL
  ELSE IF unwrapped.type = "TSArrayType" THEN ComplexImpl(unwrapped.kids[1], oracle, enumCheck)
  ELSE IF unwrapped.type = "TSTupleType" THEN TupleComplex(unwrapped, oracle, enumCheck)
  ELSE IF unwrapped.type = "TSTypeReference" THEN ReferenceComplex(unwrapped, oracle, enumCheck)
  ELSE FALSE

\* utils/type-helpers.util: the shared helpers
isComplexType(node, oracle) == ComplexImpl(node, oracle, TRUE)

analyzeUnionType(node, oracle) == AnalyzeImpl(node, oracle, TRUE)

isArrayType(typeAnnotation) ==
  LET unwrapped == unwrapReadonlyOperator(typeAnnotation) IN
  \/ unwrapped.type = "TSArrayType"
  \/ IsArrayReference(unwrapped)
  \/ unwrapped.type = "TSTupleType"

isTupleType(typeAnnotation) == unwrapReadonlyOperator(typeAnnotation).type = "TSTupleType"

isUnionEnumType(node) == isUnionOfLiterals(node)

\* a variant of ExpectedIncludes: only the first expected type is compared
ExpectedIncludesFirstOnly(expectedTypes, actual) ==
  expectedTypes # <<>> /\ expectedTypes[1] = actual

\* expectedTypes.some(...) of checkTypeMatch: 'array' and 'Array' match each other
ExpectedIncludes(expectedTypes, actual) ==
  \E i \in DOMAIN expectedTypes :
    \/ expectedTypes[i] = "array" /\ actual = "Array"
    \/ expectedTypes[i] = "Array" /\ actual = "array"
    \/ expectedTypes[i] = actual

\* a variant of EnumMatch: a type reference is not taken for an enum
EnumMatchUnionOnly(expectedTypes, typeAnnotation) ==
  isUnionEnumType(typeAnnotation) /\ "union-literal" \in Range(expectedTypes)

\* the @IsEnum branch of checkTypeMatch
EnumMatch(expectedTypes, typeAnnotation) ==
  IF isUnionEnumType(typeAnnotation) THEN "union-literal" \in Range(expectedTypes)
  ELSE IF typeAnnotation.type = "TSTypeReference" THEN "type-reference" \in Range(expectedTypes)
  ELSE FALSE

\* a variant of checkTypeMatch: utility types are not unwrapped
checkTypeMatchNoUnwrap(decorator, typeAnnotation, actualType, oracle) ==
  LET expectedTypes == decoratorTypeMap(decorator)
      nullableCheck == isNullableUnion(typeAnnotation)
      baseTypeString == getTypeString(nullableCheck.baseType, oracle)
  IN
  IF expectedTypes = <<>> THEN TRUE
  ELSE IF decorator = "IsEnum" THEN EnumMatch(expectedTypes, typeAnnotation)
  ELSE IF nullableCheck.isNullable /\ nullableCheck.baseType # NullNode /\ Truthy(baseTypeString)
    THEN ExpectedIncludes(expectedTypes, baseTypeString)
  ELSE ExpectedIncludes(expectedTypes, actualType)

\* a variant of checkTypeMatch: a nullable union is matched by its own category
RECURSIVE checkTypeMatchNoNullable(_, _, _, _)
checkTypeMatchNoNullable(decorator, typeAnnotation, actualType, oracle) ==
  LET expectedTypes == decoratorTypeMap(decorator)
      utilityTypeInfo == getUtilityTypeArgument(typeAnnotation)
      underlyingType == getTypeString(utilityTypeInfo.typeArgument, oracle)
  IN
  IF expectedTypes = <<>> THEN TRUE
  ELSE IF decorator = "IsEnum" THEN EnumMatch(expectedTypes, typeAnnotation)
  ELSE IF /\ utilityTypeInfo.found
          /\ utilityTypeInfo.utilityType # "ReadonlyArray"
          /\ Truthy(underlyingType)
    THEN checkTypeMatchNoNullable(decorator, utilityTypeInfo.typeArgument, underlyingType,
                                  oracle)
  ELSE ExpectedIncludes(expectedTypes, actualType)

RECURSIVE checkTypeMatch(_, _, _, _)
checkTypeMatch(decorator, typeAnnotation, actualType, oracle) ==
  LET expectedTypes == decoratorTypeMap(decorator)
      utilityTypeInfo == getUtilityTypeArgument(typeAnnotation)
      underlyingType == getTypeString(utilityTypeInfo.typeArgument, oracle)
      nullableCheck == isNullableUnion(typeAnnotation)
      baseTypeString == getTypeString(nullableCheck.baseType, oracle)
  IN
  IF expectedTypes = <<>> THEN TRUE
  ELSE IF decorator = "IsEnum" THEN EnumMatch(expectedTypes, typeAnnotation)
  ELSE IF /\ utilityTypeInfo.found
          /\ utilityTypeInfo.utilityType # "ReadonlyArray"
          /\ Truthy(underlyingType)
    THEN checkTypeMatch(decorator, utilityTypeInfo.typeArgument, underlyingType, oracle)
  ELSE IF nullableCheck.isNullable /\ nullableCheck.baseType # NullNode /\ Truthy(baseTypeString)
    THEN ExpectedIncludes(expectedTypes, baseTypeString)
  ELSE ExpectedIncludes(expectedTypes, actualType)

(***************************************************************************)
(* The type annotations the model is run on.                               *)
(***************************************************************************)
QualifiedRole == TSTypeReference(TSQualifiedName(Identifier("NS"), "Role"), <<>>)

QualifiedABC ==
  TSTypeReference(TSQualifiedName(TSQualifiedName(Identifier("A"), "B"), "C"), <<>>)

LiteralKinds == {"string", "number", "boolean", "bigint", "UnaryExpression"}

ReferenceNames == {"Address", "Date", "String", "Promise", "Record", "Array", "Partial"}

Atoms ==
  {StringT, NumberT, BooleanT, NullT, UndefinedT, AnyT, TemplateT, TypeLiteralT}
    \cup {TSLiteralType(k) : k \in LiteralKinds}
    \cup {Ref(n) : n \in ReferenceNames}
    \cup {QualifiedRole, QualifiedABC}

KeyLiteral == TSLiteralType("string")

\* a type with one wrapper around x
Wrapped(x) ==
  {TSArrayType(x), TSTypeOperator("readonly", x), TSTypeOperator("keyof", x),
   Generic("Array", <<x>>), Generic("ReadonlyArray", <<x>>), Generic("Partial", <<x>>),
   Generic("Required", <<x>>), Generic("Readonly", <<x>>), Generic("NonNullable", <<x>>),
   Generic("Pick", <<x, KeyLiteral>>), Generic("Omit", <<x, KeyLiteral>>),
   Generic("Extract", <<x, KeyLiteral>>), Generic("Exclude", <<x, KeyLiteral>>),
   Generic("Promise", <<x>>), Generic("Record", <<StringT, x>>),
   TSTupleType(<<x>>), TSTupleType(<<TSNamedTupleMember(x)>>)}

Members ==
  {StringT, NumberT, NullT, UndefinedT, AnyT, KeyLiteral, Ref("Address"), TypeLiteralT}

CoreMembers == {StringT, NullT, KeyLiteral, Ref("Address")}

MemberSeqs ==
  UNION {[1..k -> IF k <= 2 THEN Members ELSE CoreMembers] : k \in 2..MaxMembers}

Composites ==
  UNION {{TSUnionType(ms), TSIntersectionType(ms), TSTupleType(ms)} : ms \in MemberSeqs}

Level1 == Atoms \cup UNION {Wrapped(a) : a \in Atoms} \cup Composites

\* one more wrapper around x, or the nullable union of x
Nested(x) ==
  {TSArrayType(x), TSTypeOperator("readonly", x), Generic("Partial", <<x>>),
   Generic("Pick", <<x, KeyLiteral>>), TSUnionType(<<x, NullT>>)}

RECURSIVE NestLevel(_)
NestLevel(n) ==
  IF n = 0 THEN Level1
  ELSE LET below == NestLevel(n - 1) IN below \cup UNION {Nested(x) : x \in below}

TypeExprs == NestLevel(MaxNest)

\* the syntax of the class property besides its decorators and its type:
\* node.optional (?), node.definite (!) and node.value (an initializer)
Property(o, d, v) == [optional |-> o, definite |-> d, value |-> v]

NoProperty == Property(FALSE, FALSE, FALSE)

\* the property as first linted and the number of fixes applied to it since
FixLoop(n, p, t) == [passes |-> n, original |-> p, originalType |-> t]

NoFixLoop == FixLoop(0, NoProperty, NullNode)

NoCall == [fn |-> "none", decorator |-> "", actualType |-> "", out |-> FALSE]

Called(f, result) == [fn |-> f, decorator |-> "", actualType |-> "", out |-> result]

(***************************************************************************)
(* Spec: the helpers applied to one type annotation, with no type checker. *)
(***************************************************************************)
Init ==
  /\ typeNode \in TypeExprs
  /\ checker = NoChecker
  /\ decorators = <<>>
  /\ call = NoCall
  /\ reports = <<>>
  /\ field = NoProperty
  /\ fixLoop = NoFixLoop
  /\ stack = <<>>

GetTypeString ==
  /\ call = NoCall
  /\ call' = Called("getTypeString", getTypeString(typeNode, checker))
  /\ UNCHANGED <<typeNode, checker, decorators, reports, field, fixLoop, stack>>

IsComplexType ==
  /\ call = NoCall
  /\ call' = Called("isComplexType", isComplexType(typeNode, checker))
  /\ UNCHANGED <<typeNode, checker, decorators, reports, field, fixLoop, stack>>

IsNullableUnion ==
  /\ call = NoCall
  /\ call' = Called("isNullableUnion", isNullableUnion(typeNode))
  /\ UNCHANGED <<typeNode, checker, decorators, reports, field, fixLoop, stack>>

AnalyzeUnionType ==
  /\ call = NoCall
  /\ call' = Called("analyzeUnionType", analyzeUnionType(typeNode, checker))
  /\ UNCHANGED <<typeNode, checker, decorators, reports, field, fixLoop, stack>>

GetUtilityTypeArgument ==
  /\ call = NoCall
  /\ call' = Called("getUtilityTypeArgument", getUtilityTypeArgument(typeNode))
  /\ UNCHANGED <<typeNode, checker, decorators, reports, field, fixLoop, stack>>

UnwrapUtilityTypeForClassName ==
  /\ call = NoCall
  /\ call' = Called("unwrapUtilityTypeForClassName", unwrapUtilityTypeForClassName(typeNode))
  /\ UNCHANGED <<typeNode, checker, decorators, reports, field, fixLoop, stack>>

Next ==
  \/ GetTypeString
  \/ IsComplexType
  \/ IsNullableUnion
  \/ AnalyzeUnionType
  \/ GetUtilityTypeArgument
  \/ UnwrapUtilityTypeForClassName

Spec == Init /\ [][Next]_vars

(***************************************************************************)
(* Claims about the helpers with no type checker (Spec).                   *)
(***************************************************************************)
\* the text of a (qualified) name, read left to right
RECURSIVE SourceName(_)
SourceName(entity) ==
  IF entity.type = "Identifier" THEN entity.name
  ELSE SourceName(entity.left[1]) \o "." \o entity.name

\* the category C6 states for a normalised expression that is no intersection
C6Category(e) ==
  CASE e.type = "TSStringKeyword" -> "string"
    [] e.type = "TSNumberKeyword" -> "number"
    [] e.type = "TSBooleanKeyword" -> "boolean"
    [] e.type \in {"TSArrayType", "TSTupleType"} -> "array"
    [] e.type = "TSTemplateLiteralType" -> "string"
    [] e.type = "TSTypeReference" -> SourceName(e.typeName[1])
    [] e.type = "TSTypeLiteral" -> "object"
    [] e.type = "TSUnionType" -> "union"
    [] e.type = "TSLiteralType" /\ e.text = "string" -> "string"
    [] e.type = "TSLiteralType" /\ e.text = "number" -> "number"
    [] e.type = "TSLiteralType" /\ e.text = "boolean" -> "boolean"
    [] e.type = "TSLiteralType" /\ e.text \notin {"string", "number", "boolean"} -> "literal"
    [] OTHER -> NULL

\* C6: with no oracle, getTypeString's result is fixed by the tag of the
\* expression once its readonly operators are stripped: the keyword's name,
\* 'array' for arrays and tuples, 'string' for template strings, the dotted
\* name in source order for a reference, 'object', 'union', the kind of a
\* literal's value or 'literal', and null for every other tag but intersection.
C6_ClassifyByTag ==
  (/\ call.fn = "getTypeString"
   /\ ~checker.present
   /\ unwrapReadonlyOperator(typeNode).type # "TSIntersectionType")
    => call.out = C6Category(unwrapReadonlyOperator(typeNode))

C6_Witness ==
  /\ call.fn = "getTypeString"
  /\ typeNode = TSTypeOperator("readonly", QualifiedABC)
  /\ call.out = "A.B.C"

IsNullish(t) == t.type \in {"TSNullKeyword", "TSUndefinedKeyword"}

\* C7: a union of literal types only is not complex; any other union is complex
\* exactly when some member other than null/undefined is complex.
C7_UnionComplexity ==
  (call.fn = "isComplexType" /\ typeNode.type = "TSUnionType")
    => call.out =
         IF \A i \in DOMAIN typeNode.kids : typeNode.kids[i].type = "TSLiteralType"
           THEN FALSE
           ELSE \E i \in DOMAIN typeNode.kids :
                  /\ ~IsNullish(typeNode.kids[i])
                  /\ isComplexType(typeNode.kids[i], checker)

C7_Witness ==
  /\ call.fn = "isComplexType"
  /\ typeNode = TSUnionType(<<TSArrayType(Ref("Address")), NullT>>)
  /\ call.out = TRUE

IsWrapperWithArgument(t) ==
  /\ t.type = "TSTypeReference"
  /\ t.typeName[1].type = "Identifier"
  /\ t.typeName[1].name \in
       {"Partial", "Required", "Pick", "Omit", "Readonly", "NonNullable", "Extract",
        "Exclude", "ReadonlyArray"}
  /\ Len(t.kids) >= 1

\* C9: with no oracle, each of the nine wrappers with a type argument is as
\* complex as its first type argument; Partial, Pick and Omit over a class or
\* interface reference are complex.
C9_WrapperComplexity ==
  (call.fn = "isComplexType" /\ ~checker.present /\ IsWrapperWithArgument(typeNode))
    => /\ call.out = isComplexType(typeNode.kids[1], checker)
       /\ (/\ typeNode.typeName[1].name \in {"Partial", "Pick", "Omit"}
           /\ typeNode.kids[1] \in {Ref("Address"), QualifiedRole})
            => call.out = TRUE

C9_Witness ==
  /\ call.fn = "isComplexType"
  /\ typeNode = Generic("Omit", <<Ref("Address"), KeyLiteral>>)
  /\ call.out = TRUE

\* the element type E when t is E[], readonly E[], Array<E> or ReadonlyArray<E>
C10Element(t) ==
  IF t.type = "TSArrayType" THEN t.kids[1]
  ELSE IF t.type = "TSTypeOperator" /\ t.text = "readonly" /\ t.kids[1].type = "TSArrayType"
    THEN t.kids[1].kids[1]
  ELSE IF /\ t.type = "TSTypeReference"
          /\ t.typeName[1].type = "Identifier"
          /\ t.typeName[1].name \in {"Array", "ReadonlyArray"}
          /\ Len(t.kids) = 1
    THEN t.kids[1]
  ELSE NullNode

\* C10: with no oracle, E[], readonly E[], Array<E> and ReadonlyArray<E> are
\* complex exactly when E is.
C10_ArrayComplexity ==
  (call.fn = "isComplexType" /\ ~checker.present /\ C10Element(typeNode) # NullNode)
    => call.out = isComplexType(C10Element(typeNode), checker)

C10_Witness ==
  /\ call.fn = "isComplexType"
  /\ typeNode = Generic("Array", <<Ref("Address")>>)
  /\ call.out = TRUE

(***************************************************************************)
(* SpecMatch: checkTypeMatch applied to a decorator name, a type           *)
(* annotation and a category, with no type checker.                        *)
(***************************************************************************)
\* one decorator of every row kind of the table, a type-agnostic one and one
\* the table does not know
DecoratorInputs ==
  {"IsString", "IsNumber", "IsBoolean", "IsDate", "IsArray", "ArrayMinSize", "IsObject",
   "IsEnum", "IsOptional", "Custom"}

\* values of the actualType argument
CategoryInputs ==
  {"string", "number", "boolean", "Date", "array", "Array", "ReadonlyArray", "object",
   "union", "Address"}

\* types of depth one, and a second wrapper around some of them
MatchInner ==
  {Generic("Partial", <<StringT>>), Generic("Exclude", <<Ref("Date"), KeyLiteral>>),
   Generic("ReadonlyArray", <<StringT>>), Generic("Array", <<NumberT>>),
   TSArrayType(StringT), TSUnionType(<<StringT, NullT>>),
   TSUnionType(<<UndefinedT, Ref("Date")>>), TSUnionType(<<StringT, NumberT>>),
   TSUnionType(<<KeyLiteral, KeyLiteral>>)}

MatchTypes == Level1 \cup UNION {Nested(x) : x \in MatchInner}

InitMatch ==
  /\ typeNode \in MatchTypes
  /\ checker = NoChecker
  /\ decorators = <<>>
  /\ call = NoCall
  /\ reports = <<>>
  /\ field = NoProperty
  /\ fixLoop = NoFixLoop
  /\ stack = <<>>

CheckTypeMatch ==
  /\ call = NoCall
  /\ \E d \in DecoratorInputs, c \in CategoryInputs :
       call' = [fn |-> "checkTypeMatch", decorator |-> d, actualType |-> c,
                out |-> checkTypeMatch(d, typeNode, c, checker)]
  /\ UNCHANGED <<typeNode, checker, decorators, reports, field, fixLoop, stack>>

NextMatch == CheckTypeMatch

SpecMatch == InitMatch /\ [][NextMatch]_vars

\* one of the nine wrappers carrying a type argument, under any readonly operators
IsUtilityWrapper(t) == IsWrapperWithArgument(unwrapReadonlyOperator(t))

\* a union with exactly one member besides null/undefined and at least one of those
IsSimpleNullableUnion(t) ==
  /\ t.type = "TSUnionType"
  /\ Cardinality({i \in DOMAIN t.kids : ~IsNullish(t.kids[i])}) = 1
  /\ \E i \in DOMAIN t.kids : IsNullish(t.kids[i])

SameCategory(a, b) ==
  \/ a = b
  \/ {a, b} = {"array", "Array"}

\* C1: for a decorator other than IsEnum and a type that is neither a utility
\* wrapper nor a simple nullable union, checkTypeMatch is true exactly when the
\* decorator is not in the table, or its expected list is empty, or the
\* category is in the expected list, 'array' and 'Array' counting as the same.
C1_StandardMatch ==
  (/\ call.fn = "checkTypeMatch"
   /\ call.decorator # "IsEnum"
   /\ ~IsUtilityWrapper(typeNode)
   /\ ~IsSimpleNullableUnion(typeNode))
    => call.out =
         (\/ call.decorator \notin TrackedDecorators
          \/ Len(decoratorTypeMap(call.decorator)) = 0
          \/ \E i \in DOMAIN decoratorTypeMap(call.decorator) :
               SameCategory(decoratorTypeMap(call.decorator)[i], call.actualType))

C1_Witness ==
  /\ call.fn = "checkTypeMatch"
  /\ call.decorator = "ArrayMinSize"
  /\ call.actualType = "Array"
  /\ typeNode = Ref("Array")
  /\ call.out = TRUE

\* C2: checkTypeMatch of IsEnum is true exactly when the type is a union of
\* literal types only or a type reference, whatever its name or type
\* arguments; it is false for every other type and never depends on the
\* category.
C2_EnumMatch ==
  (call.fn = "checkTypeMatch" /\ call.decorator = "IsEnum")
    => call.out =
         (\/ /\ typeNode.type = "TSUnionType"
             /\ \A i \in DOMAIN typeNode.kids : typeNode.kids[i].type = "TSLiteralType"
          \/ typeNode.type = "TSTypeReference")

C2_Witness ==
  /\ call.fn = "checkTypeMatch"
  /\ call.decorator = "IsEnum"
  /\ typeNode = Generic("Partial", <<StringT>>)
  /\ call.actualType = "string"
  /\ call.out = TRUE

(***************************************************************************)
(* SpecOracle: the helpers applied to a type annotation when the rule has  *)
(* a type checker.  The checker answers for the type references of the     *)
(* annotation; every other node gets its default answer.                   *)
(***************************************************************************)
RECURSIVE SubNodes(_)
SubNodes(node) == {node} \cup UNION {SubNodes(node.kids[i]) : i \in DOMAIN node.kids}

ReferenceNodes(node) == {n \in SubNodes(node) : n.type = "TSTypeReference"}

OracleDefaults == {"Other", "unmapped", "throws"}

OracleAnswers == {"String", "Number", "Boolean", "Array", "Tuple", "Enum", "EnumLiteral"}

Oracles(node) ==
  {NoChecker} \cup
    {[present |-> TRUE, default |-> d, entries |-> e] :
       d \in OracleDefaults,
       e \in UNION {[S -> OracleAnswers] :
                      S \in {R \in SUBSET ReferenceNodes(node) :
                               Cardinality(R) <= MaxOracleEntries}}}

OracleTypes == Level1

InitOracle ==
  /\ typeNode \in OracleTypes
  /\ checker \in Oracles(typeNode)
  /\ decorators = <<>>
  /\ call = NoCall
  /\ reports = <<>>
  /\ field = NoProperty
  /\ fixLoop = NoFixLoop
  /\ stack = <<>>

NextOracle ==
  \/ GetTypeString
  \/ IsComplexType
  \/ AnalyzeUnionType

SpecOracle == InitOracle /\ [][NextOracle]_vars

IsMappedWrapper(t) ==
  /\ IsWrapperWithArgument(t)
  /\ t.typeName[1].name \in {"Partial", "Required", "Readonly", "Pick", "Omit"}

\* the state C8 speaks about: isComplexType ran with a checker on W<T, ...> and
\* the checker does not take the reference for an enum
C8Case ==
  /\ call.fn = "isComplexType"
  /\ checker.present
  /\ IsMappedWrapper(typeNode)
  /\ TypeAtLocation(checker, typeNode) \notin {"Enum", "EnumLiteral"}

Arg(t, e, x) == [type |-> t, each |-> e, expr |-> x]

ArgIdentifier(n) == Arg("Identifier", FALSE, <<Identifier(n)>>)

MemberExpression(object, property) ==
  [type |-> "MemberExpression", name |-> property, left |-> <<object>>]

ArgMember(object, property) ==
  Arg("MemberExpression", FALSE, <<MemberExpression(object, property)>>)

ArgArrow(n) == Arg("ArrowFunctionExpression", FALSE, <<Identifier(n)>>)

ArgObject(e) == Arg("ObjectExpression", e, <<>>)

ArgLiteral == Arg("Literal", FALSE, <<>>)

Decorator(f, n, a) == [form |-> f, name |-> n, args |-> a]

DecoratorCall(n, a) == Decorator("CallExpression", n, a)

EachTrue == ArgObject(TRUE)

isComplexTypeDTM(node, oracle) == ComplexImpl(node, oracle, FALSE)

analyzeUnionTypeDTM(node, oracle) == AnalyzeImpl(node, oracle, FALSE)

\* the while loop of getIsEnumArgument: property names are unshifted
RECURSIVE MemberParts(_, _)
MemberParts(current, parts) ==
  IF current.type = "MemberExpression"
    THEN MemberParts(current.left[1], <<current.name>> \o parts)
  ELSE IF current.type = "Identifier" THEN <<current.name>> \o parts
  ELSE parts

getIsEnumArgument(decorator) ==
  IF decorator.form = "Identifier" \/ decorator.args = <<>> THEN NULL
  ELSE LET firstArg == decorator.args[1] IN
    IF firstArg.type = "Identifier" THEN firstArg.expr[1].name
    ELSE IF firstArg.type = "MemberExpression"
      THEN Join(MemberParts(firstArg.expr[1], <<>>), ".")
    ELSE NULL

getTypeDecoratorClassName(decorator) ==
  IF decorator.form = "Identifier" \/ decorator.args = <<>> THEN NULL
  ELSE LET firstArg == decorator.args[1] IN
    IF firstArg.type \in {"ArrowFunctionExpression", "FunctionExpression"}
       /\ firstArg.expr # <<>>
      THEN firstArg.expr[1].name
      ELSE NULL

hasEachOption(decorator) ==
  IF decorator.form = "Identifier" THEN FALSE
  ELSE \E i \in 1..(IF Len(decorator.args) < 2 THEN Len(decorator.args) ELSE 2) :
         decorator.args[i].type = "ObjectExpression" /\ decorator.args[i].each

hasValidateNestedEachOption(decorator) == hasEachOption(decorator)

\* the names of node.decorators: @Name and @Name(...) only
RECURSIVE DecoratorNames(_)
DecoratorNames(ds) ==
  IF ds = <<>> THEN <<>>
  ELSE IF ds[1].form \in {"CallExpression", "Identifier"}
    THEN <<ds[1].name>> \o DecoratorNames(Tail(ds))
    ELSE DecoratorNames(Tail(ds))

\* node.decorators.find(...): the first decorator of the forms with that name,
\* as a sequence of none or one
RECURSIVE FindDecorator(_, _, _)
FindDecorator(ds, forms, name) ==
  IF ds = <<>> THEN <<>>
  ELSE IF ds[1].form \in forms /\ ds[1].name = name THEN <<ds[1]>>
  ELSE FindDecorator(Tail(ds), forms, name)

Report(m, d, a, i, j) ==
  [messageId |-> m, decorator |-> d, actualType |-> a, info |-> i, info2 |-> j]

\* @IsEnum(E) on a type reference: E must be the name of the type
EnumReports(ds, names, typeAnnotation) ==
  IF "IsEnum" \in Range(names) /\ typeAnnotation.type = "TSTypeReference"
    THEN LET isEnumDecorator == FindDecorator(ds, {"CallExpression"}, "IsEnum") IN
      IF isEnumDecorator = <<>> THEN <<>>
      ELSE LET enumArg == getIsEnumArgument(isEnumDecorator[1])
               typeName == getTypeReferenceName(typeAnnotation.typeName[1])
           IN
        IF Truthy(enumArg) /\ enumArg # typeName
          THEN <<Report("enumMismatch", "", typeName, enumArg, "")>>
          ELSE <<>>
    ELSE <<>>

\* @Type(() => ClassName) must name the type, or the element type of an array
TypeReports(ds, typeAnnotation, actualType, oracle) ==
  LET typeDecorator == FindDecorator(ds, {"CallExpression"}, "Type") IN
  IF typeDecorator = <<>> THEN <<>>
  ELSE LET typeClassName == getTypeDecoratorClassName(typeDecorator[1]) IN
    IF ~Truthy(typeClassName) THEN <<>>
    ELSE IF ~isArrayType(typeAnnotation)
      THEN IF typeAnnotation.type = "TSTypeReference"
        THEN LET tsTypeName == getTypeReferenceName(typeAnnotation.typeName[1]) IN
          IF typeClassName # tsTypeName
            THEN <<Report("typeMismatch", "", tsTypeName, typeClassName, "")>>
            ELSE <<>>
        ELSE <<Report("typeMismatch", "", actualType, typeClassName, "")>>
    ELSE LET elementTypeNode == getArrayElementTypeNode(typeAnnotation) IN
      IF elementTypeNode = NullNode THEN <<>>
      ELSE IF elementTypeNode.type = "TSTypeReference"
        THEN LET elementTypeName == getTypeReferenceName(elementTypeNode.typeName[1]) IN
          IF typeClassName # elementTypeName
            THEN <<Report("typeMismatch", "", elementTypeName \o "[]", typeClassName, "")>>
            ELSE <<>>
      ELSE LET elementType == getTypeString(elementTypeNode, oracle) IN
        IF Truthy(elementType)
          THEN <<Report("typeMismatch", "", elementType \o "[]", typeClassName, "")>>
          ELSE <<>>

TupleReports(typeAnnotation, oracle) ==
  IF isTupleType(typeAnnotation)
    THEN LET elements == getTupleElementTypes(typeAnnotation) IN
      IF \E i \in DOMAIN elements : isComplexTypeDTM(elements[i], oracle)
        THEN <<Report("tupleValidationWarning", "", "", "", "")>>
        ELSE <<>>
    ELSE <<>>

\* complexTypes.map((t) => getTypeString(t) || 'unknown')
ComplexTypeNames(complexTypes, oracle) ==
  [i \in DOMAIN complexTypes |->
     LET n == getTypeString(complexTypes[i], oracle) IN
     IF Truthy(n) THEN n ELSE "unknown"]

UnionReports(typeAnnotation, oracle) ==
  IF typeAnnotation.type = "TSUnionType" /\ ~isUnionOfLiterals(typeAnnotation)
    THEN LET unionAnalysis == analyzeUnionTypeDTM(typeAnnotation, oracle)
             complexTypeNames ==
               Join(ComplexTypeNames(unionAnalysis.complexTypes, oracle), " | ")
         IN
      (IF unionAnalysis.hasMultipleComplexTypes
         THEN <<Report("multiTypeUnionWarning", "", "", complexTypeNames, "")>>
         ELSE <<>>)
      \o
      (IF unionAnalysis.hasMixedComplexity
         THEN <<Report("mixedComplexityUnionWarning", "", "",
                       Join(unionAnalysis.primitiveTypes, " | "), complexTypeNames)>>
         ELSE <<>>)
    ELSE <<>>

\* decorators.find((d) => decoratorTypeMap[d] && decoratorTypeMap[d].includes(t))
RECURSIVE FindValidatorFor(_, _)
FindValidatorFor(names, elementTypeName) ==
  IF names = <<>> THEN NULL
  ELSE IF elementTypeName \in Range(decoratorTypeMap(names[1])) THEN names[1]
  ELSE FindValidatorFor(Tail(names), elementTypeName)

\* the class a missing @Type should name: the nullable base, utility types unwrapped
ClassNode(typeNode_) ==
  LET nullableCheck == isNullableUnion(typeNode_)
      typeToCheck == IF nullableCheck.isNullable /\ nullableCheck.baseType # NullNode
                       THEN nullableCheck.baseType ELSE typeNode_
  IN [typeToCheck |-> typeToCheck, unwrappedType |-> unwrapUtilityTypeForClassName(typeToCheck)]

\* arrays of complex elements need @ValidateNested({each: true}) and @Type
ArrayReports(ds, names, typeAnnotation, oracle) ==
  LET hasValidateNested == "ValidateNested" \in Range(names)
      hasTypeDecorator == "Type" \in Range(names)
      elementTypeNode == getArrayElementTypeNode(typeAnnotation)
  IN
  IF ~(isArrayType(typeAnnotation) /\ ~isTupleType(typeAnnotation)) THEN <<>>
  ELSE IF elementTypeNode = NullNode THEN <<>>
  ELSE LET elementTypeName == getTypeString(elementTypeNode, oracle)
           isElementComplex == isComplexTypeDTM(elementTypeNode, oracle)
       IN
    IF isElementComplex /\ Truthy(elementTypeName)
      THEN IF ~hasValidateNested
        THEN <<Report("nestedArrayMismatch", "", "", elementTypeName, "")>>
        ELSE LET validateNestedDecorator ==
                   FindDecorator(ds, {"Identifier", "CallExpression"}, "ValidateNested")
                 unwrappedType == ClassNode(elementTypeNode).unwrappedType
             IN
          (IF validateNestedDecorator # <<>>
              /\ ~hasValidateNestedEachOption(validateNestedDecorator[1])
             THEN <<Report("missingEachOption", "", "", "", "")>>
             ELSE <<>>)
          \o
          (IF ~hasTypeDecorator /\ unwrappedType.type = "TSTypeReference"
             THEN <<Report("missingTypeDecorator", "", elementTypeName \o "[]",
                           getTypeReferenceName(unwrappedType.typeName[1]), "")>>
             ELSE <<>>)
    ELSE IF ~isElementComplex /\ hasValidateNested /\ Truthy(elementTypeName)
      THEN LET arrayValidatorDecorator == FindValidatorFor(names, elementTypeName) IN
        <<Report("unnecessaryValidateNested",
                 IF arrayValidatorDecorator # NULL THEN arrayValidatorDecorator ELSE "IsString",
                 "", elementTypeName, "")>>
    ELSE <<>>

\* a variant of MatchReports: { each: true } on a non-array is not looked for
MatchReportsNoEachCheck(ds, decorator, typeAnnotation, actualType, oracle) ==
  IF decorator \in TYPE_AGNOSTIC_DECORATORS THEN <<>>
  ELSE IF ~checkTypeMatch(decorator, typeAnnotation, actualType, oracle)
    THEN <<Report("mismatch", decorator, actualType,
                  IF decoratorTypeMap(decorator) # <<>>
                    THEN Join(decoratorTypeMap(decorator), " or ") ELSE "unknown",
                  "")>>
  ELSE <<>>

\* one round of the loop over the decorator names
MatchReports(ds, decorator, typeAnnotation, actualType, oracle) ==
  LET decoratorNode == FindDecorator(ds, {"CallExpression", "Identifier"}, decorator)
      hasEach == IF decoratorNode # <<>> THEN hasEachOption(decoratorNode[1]) ELSE FALSE
      elementTypeNode == getArrayElementTypeNode(typeAnnotation)
      elementType == IF elementTypeNode # NullNode
                       THEN getTypeString(elementTypeNode, oracle) ELSE NULL
      useElement == hasEach /\ isArrayType(typeAnnotation) /\ Truthy(elementType)
      typeToCheck == IF useElement THEN elementType ELSE actualType
      typeNodeToCheck == IF useElement THEN elementTypeNode ELSE typeAnnotation
  IN
  IF decorator \in TYPE_AGNOSTIC_DECORATORS THEN <<>>
  ELSE IF hasEach /\ ~isArrayType(typeAnnotation)
    THEN <<Report("invalidEachOption", decorator, "", "", "")>>
  ELSE IF ~checkTypeMatch(decorator, typeNodeToCheck, typeToCheck, oracle)
    THEN <<Report("mismatch", decorator, typeToCheck,
                  IF decoratorTypeMap(decorator) # <<>>
                    THEN Join(decoratorTypeMap(decorator), " or ") ELSE "unknown",
                  "")>>
  ELSE <<>>

\* for (const decorator of decorators) from name i on
RECURSIVE LoopReports(_, _, _, _, _, _)
LoopReports(ds, names, i, typeAnnotation, actualType, oracle) ==
  IF i > Len(names) THEN <<>>
  ELSE MatchReports(ds, names[i], typeAnnotation, actualType, oracle)
         \o LoopReports(ds, names, i + 1, typeAnnotation, actualType, oracle)

\* a complex type with no typed decorator needs @ValidateNested()
NestedReports(names, typeAnnotation, actualType, oracle) ==
  LET hasTypedDecorator ==
        \E i \in DOMAIN names :
          names[i] \notin TYPE_AGNOSTIC_DECORATORS /\ decoratorTypeMap(names[i]) # <<>>
      utilityInfo == getUtilityTypeArgument(typeAnnotation)
  IN
  IF /\ ~isArrayType(typeAnnotation)
     /\ isComplexTypeDTM(typeAnnotation, oracle)
     /\ ~hasTypedDecorator
     /\ "ValidateNested" \notin Range(names)
     /\ Len(names) > 0
    THEN IF utilityInfo.found /\ utilityInfo.utilityType \in {"Pick", "Omit"}
      THEN <<Report("pickOmitWarning", "", "",
                    utilityInfo.utilityType,
                    IF utilityInfo.typeArgument.type = "TSTypeReference"
                      THEN getTypeReferenceName(utilityInfo.typeArgument.typeName[1])
                      ELSE "unknown")>>
      ELSE <<Report("missingValidateNested", "", actualType, "", "")>>
    ELSE <<>>

\* a complex type with @ValidateNested needs @Type
MissingTypeReports(names, typeAnnotation, oracle) ==
  IF /\ ~isArrayType(typeAnnotation)
     /\ isComplexTypeDTM(typeAnnotation, oracle)
     /\ "ValidateNested" \in Range(names)
     /\ "Type" \notin Range(names)
    THEN LET c == ClassNode(typeAnnotation) IN
      IF c.unwrappedType.type = "TSTypeReference"
        THEN LET className == getTypeReferenceName(c.unwrappedType.typeName[1])
                 displayType == getTypeString(c.typeToCheck, oracle)
             IN <<Report("missingTypeDecorator", "",
                         IF Truthy(displayType) THEN displayType ELSE className,
                         className, "")>>
        ELSE <<>>
    ELSE <<>>

\* everything the PropertyDefinition visitor reports for one property
PropertyReports(ds, typeAnnotation, oracle) ==
  IF ds = <<>> THEN <<>>
  ELSE IF typeAnnotation = NullNode THEN <<>>
  ELSE LET names == DecoratorNames(ds)
           actualType == getTypeString(typeAnnotation, oracle)
       IN
    IF ~Truthy(actualType) THEN <<>>
    ELSE EnumReports(ds, names, typeAnnotation)
           \o TypeReports(ds, typeAnnotation, actualType, oracle)
           \o TupleReports(typeAnnotation, oracle)
           \o UnionReports(typeAnnotation, oracle)
           \o ArrayReports(ds, names, typeAnnotation, oracle)
           \o LoopReports(ds, names, 1, typeAnnotation, actualType, oracle)
           \o NestedReports(names, typeAnnotation, actualType, oracle)
           \o MissingTypeReports(names, typeAnnotation, oracle)

(***************************************************************************)
(* SpecDTM: the PropertyDefinition visitor of decorator-type-match on one  *)
(* class property.                                                         *)
(***************************************************************************)
DTMDecorators ==
  {DecoratorCall("IsString", <<>>),
   DecoratorCall("IsString", <<EachTrue>>),
   Decorator("Identifier", "IsString", <<>>),
   DecoratorCall("IsNumber", <<ArgObject(FALSE), EachTrue>>),
   DecoratorCall("IsArray", <<>>),
   DecoratorCall("IsObject", <<>>),
   DecoratorCall("IsNotEmptyObject", <<>>),
   DecoratorCall("IsEnum", <<ArgIdentifier("Role")>>),
   DecoratorCall("IsEnum", <<ArgMember(Identifier("NS"), "Role")>>),
   DecoratorCall("ValidateNested", <<>>),
   DecoratorCall("ValidateNested", <<EachTrue>>),
   DecoratorCall("Type", <<ArgArrow("Address")>>),
   DecoratorCall("IsOptional", <<>>),
   DecoratorCall("Custom", <<ArgLiteral, ArgLiteral, EachTrue>>),
   Decorator("MemberCall", "IsString", <<EachTrue>>)}

DecoratorLists == UNION {[1..k -> DTMDecorators] : k \in 0..MaxDecorators}

ArrayForms(x) ==
  {TSArrayType(x), TSTypeOperator("readonly", TSArrayType(x)), Generic("Array", <<x>>),
   Generic("ReadonlyArray", <<x>>)}

MappedForms(x) ==
  {Generic("Partial", <<x>>), Generic("Required", <<x>>), Generic("Readonly", <<x>>),
   Generic("Pick", <<x, KeyLiteral>>), Generic("Omit", <<x, KeyLiteral>>)}

\* NullNode stands for a property with no type annotation
DTMTypes ==
  {NullNode, StringT, NumberT, BooleanT, AnyT, TypeLiteralT, KeyLiteral,
   Ref("Address"), Ref("Role"), Ref("Date"), Ref("Array"), QualifiedRole,
   Generic("Record", <<StringT, BooleanT>>), Generic("Record", <<StringT, Ref("Address")>>),
   Generic("Partial", <<StringT>>), Generic("NonNullable", <<Ref("Address")>>),
   TSArrayType(TSArrayType(StringT)),
   TSArrayType(TSUnionType(<<Ref("Address"), NullT>>)),
   TSArrayType(Generic("Partial", <<Ref("Address")>>)),
   TSTupleType(<<StringT, NumberT>>), TSTupleType(<<Ref("Address")>>),
   TSUnionType(<<StringT, NullT>>), TSUnionType(<<Ref("Address"), NullT>>),
   TSUnionType(<<StringT, NumberT>>), TSUnionType(<<Ref("Address"), StringT>>),
   TSUnionType(<<Ref("Address"), Ref("Role")>>), TSUnionType(<<KeyLiteral, KeyLiteral>>),
   TSIntersectionType(<<StringT, TypeLiteralT>>)}
    \cup MappedForms(Ref("Address"))
    \cup UNION {ArrayForms(x) : x \in {StringT, NumberT, AnyT, Ref("Address")}}

\* no checker, or a checker that answers for at most one type reference
DTMOracles(node) ==
  {NoChecker} \cup
    {[present |-> TRUE, default |-> "Other", entries |-> e] :
       e \in UNION {[S -> {"String", "Array", "Enum"}] :
                      S \in {R \in SUBSET (IF node = NullNode THEN {} ELSE ReferenceNodes(node)) :
                               Cardinality(R) <= MaxOracleEntries}}}

InitDTM ==
  /\ typeNode \in DTMTypes
  /\ checker \in DTMOracles(typeNode)
  /\ decorators \in DecoratorLists
  /\ call = NoCall
  /\ reports = <<>>
  /\ field = NoProperty
  /\ fixLoop = NoFixLoop
  /\ stack = <<>>

PropertyDefinition ==
  /\ call = NoCall
  /\ reports' = reports \o PropertyReports(decorators, typeNode, checker)
  /\ call' = Called("PropertyDefinition", TRUE)
  /\ UNCHANGED <<typeNode, checker, decorators, field, fixLoop, stack>>

NextDTM == PropertyDefinition

SpecDTM == InitDTM /\ [][NextDTM]_vars

(***************************************************************************)
(* Claims about decorator-type-match (SpecDTM).                            *)
(***************************************************************************)
Visited == call.fn = "PropertyDefinition"

IsRecordType(t) ==
  /\ t.type = "TSTypeReference"
  /\ t.typeName[1].type = "Identifier"
  /\ t.typeName[1].name = "Record"
  /\ Len(t.kids) = 2

\* C3: with no checker the rule reports nothing for a property whose only
\* decorator is @IsObject() or @IsNotEmptyObject() and whose type is
\* Record<K, V>, and nothing for @IsObject() alone on Partial, Pick, Omit,
\* Required or Readonly over a named interface.
C3_AsStated ==
  (/\ Visited
   /\ ~checker.present
   /\ \/ /\ decorators \in {<<DecoratorCall("IsObject", <<>>)>>,
                            <<DecoratorCall("IsNotEmptyObject", <<>>)>>}
         /\ IsRecordType(typeNode)
      \/ /\ decorators = <<DecoratorCall("IsObject", <<>>)>>
         /\ typeNode \in MappedForms(Ref("Address")))
    => reports = <<>>

\* the element type T of T[], readonly T[], Array<T> or ReadonlyArray<T>
ElementOf(t) == C10Element(t)

CarriesEach(d) ==
  \E i \in 1..(IF Len(d.args) < 2 THEN Len(d.args) ELSE 2) :
    d.args[i].type = "ObjectExpression" /\ d.args[i].each

\* the first decorator of the property written @name or @name(...)
IsFirstOfName(i) ==
  /\ decorators[i].form \in {"CallExpression", "Identifier"}
  /\ \A j \in 1..(i - 1) :
       decorators[j].form \in {"CallExpression", "Identifier"}
         => decorators[j].name # decorators[i].name

IsMismatchOf(r, name) == r.messageId = "mismatch" /\ r.decorator = name

\* C4: for a type-enforcing decorator carrying { each: true } (the only one of
\* its name before it) on T[], readonly T[], Array<T> or ReadonlyArray<T>, a
\* mismatch is reported exactly when the decorator does not match the element
\* type T with T's category, and the report carries T's category, never that
\* of the array.
C4_AsStated ==
  (Visited /\ typeNode # NullNode /\ ElementOf(typeNode) # NullNode)
    => \A i \in DOMAIN decorators :
         (/\ decorators[i].form = "CallExpression"
          /\ IsFirstOfName(i)
          /\ decorators[i].name \in TrackedDecorators
          /\ CarriesEach(decorators[i]))
           => LET T == ElementOf(typeNode)
                  c == getTypeString(T, checker)
              IN
              /\ (\E k \in DOMAIN reports : IsMismatchOf(reports[k], decorators[i].name))
                   <=> ~checkTypeMatch(decorators[i].name, T, c, checker)
              /\ \A k \in DOMAIN reports :
                   IsMismatchOf(reports[k], decorators[i].name) => reports[k].actualType = c

ReportsInvalidEach(name) ==
  \E k \in DOMAIN reports :
    reports[k].messageId = "invalidEachOption" /\ reports[k].decorator = name

\* C5 as stated: every decorator carrying { each: true } on a property whose
\* type is no array type gets an invalidEachOption report naming it.
C5_AsStated ==
  (Visited /\ typeNode # NullNode /\ ~isArrayType(typeNode))
    => \A i \in DOMAIN decorators :
         CarriesEach(decorators[i]) => ReportsInvalidEach(decorators[i].name)

\* C5 (amended): on a property whose type can be classified and is no array
\* type, every decorator written @Name(...) that is not type-agnostic, is the
\* first of its name on the property and carries { each: true } gets an
\* invalidEachOption report naming it.
C5_InvalidEachOption ==
  (/\ Visited
   /\ typeNode # NullNode
   /\ Truthy(getTypeString(typeNode, checker))
   /\ ~isArrayType(typeNode))
    => \A i \in DOMAIN decorators :
         (/\ IsFirstOfName(i)
          /\ decorators[i].name \notin TYPE_AGNOSTIC_DECORATORS
          /\ CarriesEach(decorators[i]))
           => ReportsInvalidEach(decorators[i].name)

C5_Witness ==
  /\ Visited
  /\ typeNode = StringT
  /\ decorators = <<DecoratorCall("IsString", <<EachTrue>>)>>
  /\ reports = <<Report("invalidEachOption", "IsString", "", "", "")>>

(***************************************************************************)
(* Further claims about the helpers with no type checker (Spec).           *)
(***************************************************************************)
\* the members of an intersection that classify as string, number or boolean
PrimitiveMembers(t) ==
  {i \in DOMAIN t.kids : getTypeString(t.kids[i], checker) \in {"string", "number", "boolean"}}

\* C11: with no oracle, an intersection with a member that classifies as
\* string, number or boolean has the category of the first such member and is
\* not complex; any other intersection is 'intersection' and complex.
C11_Intersection ==
  (~checker.present /\ typeNode.type = "TSIntersectionType")
    => LET hits == PrimitiveMembers(typeNode)
           first == CHOOSE i \in hits : \A j \in hits : i <= j
       IN
       /\ call.fn = "getTypeString"
            => call.out = IF hits # {} THEN getTypeString(typeNode.kids[first], checker)
                          ELSE "intersection"
       /\ call.fn = "isComplexType" => call.out = (hits = {})

C11_Witness ==
  /\ call.fn = "getTypeString"
  /\ typeNode = TSIntersectionType(<<Ref("Address"), NumberT>>)
  /\ call.out = "number"

\* the positions of the members of a union that are not null or undefined
BaseMembers(t) == {i \in DOMAIN t.kids : ~IsNullish(t.kids[i])}

\* C12: isNullableUnion gives {isNullable: true, baseType: B} exactly for a
\* union with at least one null or undefined member and exactly one other
\* member B; for everything else it gives {isNullable: false, baseType: null}.
C12_NullableUnion ==
  call.fn = "isNullableUnion"
    => call.out =
         IF /\ typeNode.type = "TSUnionType"
            /\ Cardinality(BaseMembers(typeNode)) = 1
            /\ \E i \in DOMAIN typeNode.kids : IsNullish(typeNode.kids[i])
           THEN [isNullable |-> TRUE,
                 baseType |-> typeNode.kids[CHOOSE i \in BaseMembers(typeNode) : TRUE]]
           ELSE [isNullable |-> FALSE, baseType |-> NullNode]

C12_Witness ==
  /\ call.fn = "isNullableUnion"
  /\ typeNode = TSUnionType(<<NullT, Ref("Address"), NullT>>)
  /\ call.out = [isNullable |-> TRUE, baseType |-> Ref("Address")]

\* the state C13 speaks about: analyzeUnionType ran on a union
C13Case == call.fn = "analyzeUnionType" /\ typeNode.type = "TSUnionType"

HasComplexMember(t) == \E i \in DOMAIN t.kids : isComplexType(t.kids[i], checker)

\* C13 as stated: hasMixedComplexity is true exactly when the union has a
\* member other than null/undefined that is not complex and a member that is
\* complex.
C13_AsStated ==
  C13Case =>
    call.out.hasMixedComplexity =
      (/\ \E i \in DOMAIN typeNode.kids :
            ~IsNullish(typeNode.kids[i]) /\ ~isComplexType(typeNode.kids[i], checker)
       /\ HasComplexMember(typeNode))

\* C13 (amended): hasMixedComplexity is true exactly when the union has a
\* member other than null/undefined that is not complex and has a category, and
\* a member that is complex; a member that is not complex and cannot be
\* classified counts on neither side.
C13_MixedComplexity ==
  C13Case =>
    call.out.hasMixedComplexity =
      (/\ \E i \in DOMAIN typeNode.kids :
            /\ ~IsNullish(typeNode.kids[i])
            /\ ~isComplexType(typeNode.kids[i], checker)
            /\ Truthy(getTypeString(typeNode.kids[i], checker))
       /\ HasComplexMember(typeNode))

C13_Witness ==
  /\ call.fn = "analyzeUnionType"
  /\ typeNode = TSUnionType(<<Ref("Address"), AnyT>>)
  /\ call.out.hasMixedComplexity = FALSE
  /\ Len(call.out.complexTypes) = 1

\* the first expression on the chain of first type arguments from e on that is
\* not one of the nine wrappers with a type argument
RECURSIVE FirstUnmatched(_)
FirstUnmatched(e) ==
  IF IsUtilityWrapper(e) THEN FirstUnmatched(unwrapReadonlyOperator(e).kids[1]) ELSE e

\* C14: unwrapUtilityTypeForClassName returns the first expression on the
\* chain of first type arguments that getUtilityTypeArgument does not match;
\* getUtilityTypeArgument of the result is null and unwrapping it again
\* changes nothing.
C14_UnwrapForClassName ==
  call.fn = "unwrapUtilityTypeForClassName"
    => /\ call.out = FirstUnmatched(typeNode)
       /\ ~getUtilityTypeArgument(call.out).found
       /\ unwrapUtilityTypeForClassName(call.out) = call.out

C14_Witness ==
  /\ call.fn = "unwrapUtilityTypeForClassName"
  /\ typeNode = Generic("Partial", <<Generic("Omit", <<Ref("Address"), KeyLiteral>>)>>)
  /\ call.out = Ref("Address")

(***************************************************************************)
(* Further claims about checkTypeMatch (SpecMatch).                        *)
(***************************************************************************)
\* the category is in the decorator's expected list, 'array' and 'Array' alike
Expects(d, c) ==
  \E i \in DOMAIN decoratorTypeMap(d) : SameCategory(decoratorTypeMap(d)[i], c)

\* the state C15 speaks about: a tracked decorator other than IsEnum was matched
\* against W<T, ...>, W one of the eight wrappers other than ReadonlyArray
C15Case ==
  /\ call.fn = "checkTypeMatch"
  /\ call.decorator \in TrackedDecorators \ {"IsEnum"}
  /\ IsWrapperWithArgument(typeNode)
  /\ typeNode.typeName[1].name # "ReadonlyArray"

\* C15 as stated: the verdict for W<T, ...> is that for T with T's category,
\* whatever category is passed for the wrapper.
C15_AsStated ==
  C15Case =>
    call.out = checkTypeMatch(call.decorator, typeNode.kids[1],
                              getTypeString(typeNode.kids[1], checker), checker)

\* C15 (amended): when T has a category the verdict for W<T, ...> is that for
\* T with T's category, whatever category is passed for the wrapper; when T
\* has none, the verdict is whether the category passed for the wrapper is in
\* the decorator's expected list.
C15_WrapperMatch ==
  C15Case =>
    call.out =
      IF Truthy(getTypeString(typeNode.kids[1], checker))
        THEN checkTypeMatch(call.decorator, typeNode.kids[1],
                            getTypeString(typeNode.kids[1], checker), checker)
        ELSE Expects(call.decorator, call.actualType)

C15_Witness ==
  /\ call.fn = "checkTypeMatch"
  /\ call.decorator = "IsString"
  /\ typeNode = Generic("Partial", <<AnyT>>)
  /\ call.actualType = "string"
  /\ call.out = TRUE

\* the base type of a simple nullable union
BaseOf(t) == t.kids[CHOOSE i \in BaseMembers(t) : TRUE]

\* the state C16 speaks about: a tracked decorator other than IsEnum was matched
\* against a simple nullable union
C16Case ==
  /\ call.fn = "checkTypeMatch"
  /\ call.decorator \in TrackedDecorators \ {"IsEnum"}
  /\ IsSimpleNullableUnion(typeNode)

\* C16 as stated: the verdict for a simple nullable union is whether the
\* category of its base type is in the decorator's expected list, whatever
\* category is passed for the union.
C16_AsStated ==
  C16Case =>
    call.out = Expects(call.decorator, getTypeString(BaseOf(typeNode), checker))

\* C16 (amended): when the base type has a category the verdict is whether
\* that category is in the decorator's expected list, whatever category is
\* passed for the union; when it has none, the verdict is whether the category
\* passed for the union is in the list.
C16_NullableMatch ==
  C16Case =>
    call.out =
      IF Truthy(getTypeString(BaseOf(typeNode), checker))
        THEN Expects(call.decorator, getTypeString(BaseOf(typeNode), checker))
        ELSE Expects(call.decorator, call.actualType)

C16_Witness ==
  /\ call.fn = "checkTypeMatch"
  /\ call.decorator = "IsString"
  /\ typeNode = TSUnionType(<<AnyT, NullT>>)
  /\ call.actualType = "string"
  /\ call.out = TRUE

(***************************************************************************)
(* Claims about readonly operators and a failing checker.                  *)
(***************************************************************************)
IsReadonlyOperator(t) == t.type = "TSTypeOperator" /\ t.text = "readonly"

\* C17: with no oracle, getTypeString gives the same category for an
\* expression under any number of readonly operators as for the expression.
C17_ReadonlyTransparent ==
  (call.fn = "getTypeString" /\ ~checker.present /\ IsReadonlyOperator(typeNode))
    => call.out = getTypeString(typeNode.kids[1], checker)

C17_Witness ==
  /\ call.fn = "getTypeString"
  /\ typeNode = TSTypeOperator("readonly", TSTypeOperator("readonly", StringT))
  /\ call.out = "string"

(***************************************************************************)
(* SpecFailing: the helpers with a checker none of whose queries gives an  *)
(* answer: the node lookup finds no node, the type query throws, or the    *)
(* type has no flag the helpers look for.                                  *)
(***************************************************************************)
FailingOracles ==
  {[present |-> TRUE, default |-> d, entries |-> <<>>] : d \in OracleDefaults}

InitFailing ==
  /\ typeNode \in MatchTypes
  /\ checker \in {NoChecker} \cup FailingOracles
  /\ decorators = <<>>
  /\ call = NoCall
  /\ reports = <<>>
  /\ field = NoProperty
  /\ fixLoop = NoFixLoop
  /\ stack = <<>>

NextFailing ==
  \/ GetTypeString
  \/ IsComplexType
  \/ AnalyzeUnionType
  \/ CheckTypeMatch

SpecFailing == InitFailing /\ [][NextFailing]_vars

TupleReportsVNM(typeAnnotation, oracle) ==
  IF isTupleType(typeAnnotation)
    THEN LET elements == getTupleElementTypes(typeAnnotation) IN
      IF \E i \in DOMAIN elements : isComplexType(elements[i], oracle)
        THEN <<Report("tupleValidationWarning", "", "", "", "")>>
        ELSE <<>>
    ELSE <<>>

UnionReportsVNM(typeAnnotation, oracle) ==
  IF typeAnnotation.type = "TSUnionType" /\ ~isUnionOfLiterals(typeAnnotation)
    THEN LET unionAnalysis == analyzeUnionType(typeAnnotation, oracle)
             complexTypeNames ==
               Join(ComplexTypeNames(unionAnalysis.complexTypes, oracle), " | ")
         IN
      (IF unionAnalysis.hasMultipleComplexTypes
         THEN <<Report("multiTypeUnionWarning", "", "", complexTypeNames, "")>>
         ELSE <<>>)
      \o
      (IF unionAnalysis.hasMixedComplexity
         THEN <<Report("mixedComplexityUnionWarning", "", "",
                       Join(unionAnalysis.primitiveTypes, " | "), complexTypeNames)>>
         ELSE <<>>)
    ELSE <<>>

\* arrays of complex elements need @ValidateNested({each: true})
\* a variant of ArrayReportsVNM: the each option of @ValidateNested is not looked at
ArrayReportsVNMNoEach(ds, names, typeAnnotation, oracle) ==
  LET hasValidateNested == "ValidateNested" \in Range(names)
      elementTypeNode == getArrayElementTypeNode(typeAnnotation)
  IN
  IF ~(isArrayType(typeAnnotation) /\ ~isTupleType(typeAnnotation)) THEN <<>>
  ELSE IF elementTypeNode = NullNode THEN <<>>
  ELSE LET elementTypeName == getTypeString(elementTypeNode, oracle)
           isElementComplex == isComplexType(elementTypeNode, oracle)
       IN
    IF isElementComplex /\ Truthy(elementTypeName)
      THEN IF ~hasValidateNested
        THEN <<Report("nestedArrayMismatch", "", "", elementTypeName, "")>>
        ELSE <<>>
    ELSE IF ~isElementComplex /\ hasValidateNested /\ Truthy(elementTypeName)
      THEN <<Report("unnecessaryValidateNested", "IsString", "", elementTypeName, "")>>
    ELSE <<>>

ArrayReportsVNM(ds, names, typeAnnotation, oracle) ==
  LET hasValidateNested == "ValidateNested" \in Range(names)
      elementTypeNode == getArrayElementTypeNode(typeAnnotation)
  IN
  IF ~(isArrayType(typeAnnotation) /\ ~isTupleType(typeAnnotation)) THEN <<>>
  ELSE IF elementTypeNode = NullNode THEN <<>>
  ELSE LET elementTypeName == getTypeString(elementTypeNode, oracle)
           isElementComplex == isComplexType(elementTypeNode, oracle)
       IN
    IF isElementComplex /\ Truthy(elementTypeName)
      THEN IF ~hasValidateNested
        THEN <<Report("nestedArrayMismatch", "", "", elementTypeName, "")>>
        ELSE LET validateNestedDecorator ==
                   FindDecorator(ds, {"Identifier", "CallExpression"}, "ValidateNested")
             IN
          IF validateNestedDecorator # <<>>
             /\ ~hasValidateNestedEachOption(validateNestedDecorator[1])
            THEN <<Report("missingEachOption", "", "", "", "")>>
            ELSE <<>>
    ELSE IF ~isElementComplex /\ hasValidateNested /\ Truthy(elementTypeName)
      THEN LET arrayValidatorDecorator == FindValidatorFor(names, elementTypeName) IN
        <<Report("unnecessaryValidateNested",
                 IF arrayValidatorDecorator # NULL THEN arrayValidatorDecorator ELSE "IsString",
                 "", elementTypeName, "")>>
    ELSE <<>>

\* a complex type with no typed decorator needs @ValidateNested()
NestedReportsVNM(names, typeAnnotation, actualType, oracle) ==
  LET hasTypedDecorator ==
        \E i \in DOMAIN names :
          names[i] \notin TYPE_AGNOSTIC_DECORATORS /\ decoratorTypeMap(names[i]) # <<>>
      utilityInfo == getUtilityTypeArgument(typeAnnotation)
      baseTypeName == IF utilityInfo.typeArgument.type = "TSTypeReference"
                        THEN getTypeString(utilityInfo.typeArgument, oracle)
                        ELSE "unknown"
  IN
  IF /\ ~isArrayType(typeAnnotation)
     /\ isComplexType(typeAnnotation, oracle)
     /\ ~hasTypedDecorator
     /\ "ValidateNested" \notin Range(names)
     /\ Len(names) > 0
    THEN IF utilityInfo.found /\ utilityInfo.utilityType \in {"Pick", "Omit"}
      THEN <<Report("pickOmitWarning", "", "", utilityInfo.utilityType,
                    IF Truthy(baseTypeName) THEN baseTypeName ELSE "unknown")>>
      ELSE <<Report("missingValidateNested", "", actualType, "", "")>>
    ELSE <<>>

\* everything the PropertyDefinition visitor of validate-nested-match reports
PropertyReportsVNM(ds, typeAnnotation, oracle) ==
  IF ds = <<>> THEN <<>>
  ELSE IF typeAnnotation = NullNode THEN <<>>
  ELSE LET names == DecoratorNames(ds)
           actualType == getTypeString(typeAnnotation, oracle)
       IN
    IF ~Truthy(actualType) THEN <<>>
    ELSE TupleReportsVNM(typeAnnotation, oracle)
           \o UnionReportsVNM(typeAnnotation, oracle)
           \o ArrayReportsVNM(ds, names, typeAnnotation, oracle)
           \o NestedReportsVNM(names, typeAnnotation, actualType, oracle)

(***************************************************************************)
(* SpecVNM: the PropertyDefinition visitor of validate-nested-match on one *)
(* class property.                                                         *)
(***************************************************************************)
VNMDecorators ==
  DTMDecorators \cup
    {DecoratorCall("IsEnum", <<ArgIdentifier("Role"), EachTrue>>),
     DecoratorCall("IsDefined", <<>>)}

VNMDecoratorLists == UNION {[1..k -> VNMDecorators] : k \in 0..MaxDecorators}

VNMTypes == DTMTypes \cup ArrayForms(Ref("Role"))

InitVNM ==
  /\ typeNode \in VNMTypes
  /\ checker \in DTMOracles(typeNode)
  /\ decorators \in VNMDecoratorLists
  /\ call = NoCall
  /\ reports = <<>>
  /\ field = NoProperty
  /\ fixLoop = NoFixLoop
  /\ stack = <<>>

PropertyDefinitionVNM ==
  /\ call = NoCall
  /\ reports' = reports \o PropertyReportsVNM(decorators, typeNode, checker)
  /\ call' = Called("validate-nested-match", TRUE)
  /\ UNCHANGED <<typeNode, checker, decorators, field, fixLoop, stack>>

NextVNM == PropertyDefinitionVNM

SpecVNM == InitVNM /\ [][NextVNM]_vars

VisitedVNM == call.fn = "validate-nested-match"

IsEnumEachOf(d, n) ==
  /\ d.form = "CallExpression"
  /\ d.name = "IsEnum"
  /\ getIsEnumArgument(d) = n
  /\ hasEachOption(d)

\* an array whose element is the named reference X, carrying @IsEnum(X, { each: true })
\* and no @ValidateNested, linted with no type checker
C19Case ==
  /\ VisitedVNM
  /\ checker = NoChecker
  /\ typeNode.type = "TSArrayType"
  /\ typeNode.kids[1].type = "TSTypeReference"
  /\ typeNode.kids[1].kids = <<>>
  /\ \E i \in DOMAIN decorators :
       IsEnumEachOf(decorators[i], getTypeReferenceName(typeNode.kids[1].typeName[1]))
  /\ "ValidateNested" \notin Range(DecoratorNames(decorators))

\* C19: with no oracle, validate-nested-match reports nothing for an array field
\* whose element type is a named reference when the field carries
\* @IsEnum(X, { each: true }) and no @ValidateNested.
C19_AsStated == C19Case => reports = <<>>

\* a non-array field whose type is a plain class reference the rule finds complex,
\* with at least one named decorator and no @ValidateNested
C20Case ==
  /\ VisitedVNM
  /\ typeNode.type = "TSTypeReference"
  /\ typeNode.kids = <<>>
  /\ ~isArrayType(typeNode)
  /\ isComplexType(typeNode, checker)
  /\ Len(DecoratorNames(decorators)) > 0
  /\ "ValidateNested" \notin Range(DecoratorNames(decorators))

\* C20: validate-nested-match reports missingValidateNested for every non-array
\* field of complex type that has at least one decorator but no @ValidateNested,
\* also when the field's only decorator is a type-enforcing one such as @IsString().
C20_AsStated ==
  C20Case => \E i \in DOMAIN reports : reports[i].messageId = "missingValidateNested"

(***************************************************************************)
(* Claims about the array section of validate-nested-match.                *)
(***************************************************************************)
Reported(m) == \E i \in DOMAIN reports : reports[i].messageId = m

ArrayMessages == {"nestedArrayMismatch", "missingEachOption", "unnecessaryValidateNested"}

\* the @ValidateNested decorator of the field (the first one when it is repeated)
TheValidateNested ==
  FindDecorator(decorators, {"Identifier", "CallExpression"}, "ValidateNested")

ValidateNestedPresent == "ValidateNested" \in Range(DecoratorNames(decorators))

ValidateNestedWithEach ==
  TheValidateNested # <<>> /\ hasValidateNestedEachOption(TheValidateNested[1])

\* a visited non-tuple array field whose element type is classifiable
C23Case ==
  /\ VisitedVNM
  /\ typeNode # NullNode
  /\ isArrayType(typeNode)
  /\ ~isTupleType(typeNode)
  /\ getArrayElementTypeNode(typeNode) # NullNode
  /\ Truthy(getTypeString(getArrayElementTypeNode(typeNode), checker))

\* C23: for a non-tuple array field with a classifiable element type,
\* validate-nested-match reports at most one of nestedArrayMismatch,
\* missingEachOption and unnecessaryValidateNested; for a complex element,
\* nestedArrayMismatch exactly when @ValidateNested is absent, missingEachOption
\* exactly when it is present without each: true, nothing when present with
\* each: true; for a non-complex element, unnecessaryValidateNested exactly when
\* @ValidateNested is present.
C23_AsStated ==
  C23Case =>
    /\ Cardinality({i \in DOMAIN reports : reports[i].messageId \in ArrayMessages}) <= 1
    /\ IF isComplexType(getArrayElementTypeNode(typeNode), checker)
         THEN /\ Reported("nestedArrayMismatch") <=> ~ValidateNestedPresent
              /\ Reported("missingEachOption")
                   <=> (ValidateNestedPresent /\ ~ValidateNestedWithEach)
              /\ ~Reported("unnecessaryValidateNested")
         ELSE /\ Reported("unnecessaryValidateNested") <=> ValidateNestedPresent
              /\ ~Reported("nestedArrayMismatch")
              /\ ~Reported("missingEachOption")

\* C23 for fields that carry at least one decorator: the visitor skips a
\* property with no decorators
C23_ArrayReports ==
  (C23Case /\ decorators # <<>>) =>
    /\ Cardinality({i \in DOMAIN reports : reports[i].messageId \in ArrayMessages}) <= 1
    /\ IF isComplexType(getArrayElementTypeNode(typeNode), checker)
         THEN /\ Reported("nestedArrayMismatch") <=> ~ValidateNestedPresent
              /\ Reported("missingEachOption")
                   <=> (ValidateNestedPresent /\ ~ValidateNestedWithEach)
              /\ ~Reported("unnecessaryValidateNested")
         ELSE /\ Reported("unnecessaryValidateNested") <=> ValidateNestedPresent
              /\ ~Reported("nestedArrayMismatch")
              /\ ~Reported("missingEachOption")

C23_Witness ==
  /\ C23Case
  /\ typeNode = TSArrayType(Ref("Address"))
  /\ decorators = <<DecoratorCall("ValidateNested", <<>>)>>
  /\ Reported("missingEachOption")

(***************************************************************************)
(* Claims relating getTypeString and isComplexType.                        *)
(***************************************************************************)
IsPrimitiveCategory(c) == c \in {"string", "number", "boolean"}

\* C26: for every expression and every oracle, present or absent, a type that
\* getTypeString classifies as string, number or boolean is not complex for
\* isComplexType.
C26_AsStated ==
  (call.fn = "getTypeString" /\ IsPrimitiveCategory(call.out))
    => ~isComplexType(typeNode, checker)

(***************************************************************************)
(* Claims about checkTypeMatch on nullable unions and array types.         *)
(***************************************************************************)
\* C27: adding null and/or undefined to a classifiable type T does not change
\* the verdict of a tracked decorator, IsEnum and utility wrappers included:
\* checkTypeMatch(d, T | null, 'union') equals checkTypeMatch(d, T, category of T).
C27_AsStated ==
  (/\ call.fn = "checkTypeMatch"
   /\ call.decorator \in TrackedDecorators
   /\ call.actualType = "union"
   /\ IsSimpleNullableUnion(typeNode)
   /\ Truthy(getTypeString(BaseOf(typeNode), checker)))
    => call.out = checkTypeMatch(call.decorator, BaseOf(typeNode),
                                 getTypeString(BaseOf(typeNode), checker), checker)

\* C28: with no oracle, every type isArrayType accepts (T[], readonly T[],
\* Array<T>, ReadonlyArray<T>, tuples) matches the array-validating decorators:
\* checkTypeMatch('IsArray', E, category of E) is true.
C28_AsStated ==
  (/\ call.fn = "checkTypeMatch"
   /\ call.decorator \in ArrayValidators
   /\ ~checker.present
   /\ isArrayType(typeNode)
   /\ call.actualType = getTypeString(typeNode, checker))
    => call.out = TRUE

(***************************************************************************)
(* The private isComplexType of decorator-type-match against the shared one.*)
(***************************************************************************)
\* C29: the private copy of isComplexType in decorator-type-match returns the
\* same verdict as the shared helper, for every type expression and every
\* oracle, present or absent.
C29_AsStated ==
  call.fn = "isComplexType" => isComplexTypeDTM(typeNode, checker) = call.out

(***************************************************************************)
(* rules/definite-assignment-match.ts.                                     *)
(***************************************************************************)
\* hasUndefinedInType of the visitor: undefined itself or a union with an
\* undefined member
HasUndefinedInType(typeAnnotation) ==
  \/ typeAnnotation.type = "TSUndefinedKeyword"
  \/ /\ typeAnnotation.type = "TSUnionType"
     /\ \E i \in DOMAIN typeAnnotation.kids : typeAnnotation.kids[i].type = "TSUndefinedKeyword"

\* the reason the visitor gives for a wrong !, NULL when there is none
DefiniteReason(node, typeAnnotation) ==
  IF node.optional THEN "is optional (has ?)"
  ELSE IF node.value THEN "has an initializer"
  ELSE IF HasUndefinedInType(typeAnnotation) THEN "has undefined in its type"
  ELSE NULL

\* everything the PropertyDefinition visitor of definite-assignment-match reports
PropertyReportsDAM(node, ds, typeAnnotation, oracle) ==
  IF ds = <<>> THEN <<>>
  ELSE IF typeAnnotation = NullNode THEN <<>>
  ELSE IF ~Truthy(getTypeString(typeAnnotation, oracle)) THEN <<>>
  ELSE IF node.definite /\ DefiniteReason(node, typeAnnotation) # NULL
    THEN <<Report("incorrectDefiniteAssignment", "", "",
                  DefiniteReason(node, typeAnnotation), "fix")>>
  ELSE <<>>

(***************************************************************************)
(* SpecDAM: definite-assignment-match on one class property, and the fix   *)
(* of its report applied.                                                  *)
(***************************************************************************)
Properties == {Property(o, d, v) : o \in BOOLEAN, d \in BOOLEAN, v \in BOOLEAN}

DAMDecoratorLists ==
  {<<>>, <<DecoratorCall("IsString", <<>>)>>,
   <<DecoratorCall("IsOptional", <<>>), DecoratorCall("IsString", <<>>)>>}

DAMTypes ==
  {NullNode, StringT, UndefinedT, AnyT, Ref("Address"), TSArrayType(StringT),
   TSUnionType(<<StringT, UndefinedT>>), TSUnionType(<<UndefinedT, StringT>>),
   TSUnionType(<<StringT, NullT>>), TSUnionType(<<StringT, NumberT>>),
   TSTypeOperator("readonly", TSArrayType(StringT))}

InitDAM ==
  /\ typeNode \in DAMTypes
  /\ checker = NoChecker
  /\ decorators \in DAMDecoratorLists
  /\ field \in Properties
  /\ call = NoCall
  /\ reports = <<>>
  /\ fixLoop = FixLoop(0, field, typeNode)
  /\ stack = <<>>

PropertyDefinitionDAM ==
  /\ call = NoCall
  /\ reports' = PropertyReportsDAM(field, decorators, typeNode, checker)
  /\ call' = Called("definite-assignment-match", TRUE)
  /\ UNCHANGED <<typeNode, checker, decorators, field, fixLoop, stack>>

\* fixer.removeRange([keyEnd, keyEnd + 1]) removes the ! after the key; the
\* fixed text is linted again
FixDefiniteAssignment ==
  /\ call.fn = "definite-assignment-match"
  /\ reports # <<>>
  /\ field' = [field EXCEPT !.definite = FALSE]
  /\ fixLoop' = [fixLoop EXCEPT !.passes = @ + 1]
  /\ reports' = <<>>
  /\ call' = NoCall
  /\ UNCHANGED <<typeNode, checker, decorators, stack>>

NextDAM ==
  \/ PropertyDefinitionDAM
  \/ FixDefiniteAssignment

SpecDAM == InitDAM /\ [][NextDAM]_vars

VisitedDAM == call.fn = "definite-assignment-match"

\* C22: definite-assignment-match reports a decorated property that is not
\* optional, has no initializer and no undefined in its type, and lacks the
\* definite assignment assertion (!).
C22_AsStated ==
  (/\ VisitedDAM
   /\ decorators # <<>>
   /\ typeNode # NullNode
   /\ Truthy(getTypeString(typeNode, checker))
   /\ ~field.optional
   /\ ~field.value
   /\ ~HasUndefinedInType(typeNode)
   /\ ~field.definite)
    => reports # <<>>

(***************************************************************************)
(* rules/optional-decorator-match.ts, with its default options.            *)
(***************************************************************************)
strictNullChecks == TRUE

checkDefaultValues == FALSE

optionalDecoratorNames == {"IsOptional"}

hasUndefinedInType(typeAnnotation) ==
  IF typeAnnotation = NullNode THEN FALSE
  ELSE IF typeAnnotation.type = "TSUndefinedKeyword" THEN TRUE
  ELSE IF typeAnnotation.type = "TSUnionType"
    THEN \E i \in DOMAIN typeAnnotation.kids :
           typeAnnotation.kids[i].type = "TSUndefinedKeyword"
  ELSE FALSE

hasNullInType(typeAnnotation) ==
  IF typeAnnotation = NullNode THEN FALSE
  ELSE IF typeAnnotation.type = "TSNullKeyword" THEN TRUE
  ELSE IF typeAnnotation.type = "TSUnionType"
    THEN \E i \in DOMAIN typeAnnotation.kids : typeAnnotation.kids[i].type = "TSNullKeyword"
  ELSE FALSE

hasOptionalDecorator(ds) ==
  \E i \in DOMAIN ds :
    ds[i].form \in {"CallExpression", "Identifier"} /\ ds[i].name \in optionalDecoratorNames

\* the source text of a union is its members separated by " | "; the three
\* replacements of createRemoveUndefinedFixer act on that text
\* .replace(/\s*\|\s*undefined\s*$/, ''): a last member undefined goes with its bar
ReplaceTrailingUndefined(ms) ==
  IF Len(ms) >= 2 /\ ms[Len(ms)].type = "TSUndefinedKeyword"
    THEN SubSeq(ms, 1, Len(ms) - 1)
    ELSE ms

\* .replace(/^undefined\s*\|\s*/, ''): a first member undefined goes with its bar
ReplaceLeadingUndefined(ms) ==
  IF Len(ms) >= 2 /\ ms[1].type = "TSUndefinedKeyword"
    THEN SubSeq(ms, 2, Len(ms))
    ELSE ms

\* .replace(/\s*\|\s*undefined\s*\|/g, ' |'): every match takes the bar before and
\* the bar after an inner undefined; the search goes on behind the match, so the
\* bar it has taken cannot open the next match
RECURSIVE ReplaceInnerUndefined(_, _, _)
ReplaceInnerUndefined(ms, i, barTaken) ==
  IF i > Len(ms) THEN <<>>
  ELSE IF i > 1 /\ i < Len(ms) /\ ms[i].type = "TSUndefinedKeyword" /\ ~barTaken
    THEN ReplaceInnerUndefined(ms, i + 1, TRUE)
    ELSE <<ms[i]>> \o ReplaceInnerUndefined(ms, i + 1, FALSE)

\* fixedType of createRemoveUndefinedFixer, as the members left in the text
RemoveUndefinedText(ms) ==
  ReplaceInnerUndefined(ReplaceLeadingUndefined(ReplaceTrailingUndefined(ms)), 1, FALSE)

\* the type annotation the parser reads from the members left in the text
ParseUnionText(ms) == IF Len(ms) = 1 THEN ms[1] ELSE TSUnionType(ms)

\* the issue the visitor reports, <<>> when there is none; info2 names the fix
PropertyReportsODM(node, ds, typeAnnotation) ==
  LET hasDecorator == hasOptionalDecorator(ds)
      isOptionalProperty == node.optional
      isDefiniteAssignment == node.definite
      hasUndefined == hasUndefinedInType(typeAnnotation)
      hasNull == hasNullInType(typeAnnotation)
      issues ==
        (IF hasDecorator /\ isDefiniteAssignment
           THEN <<Report("conflictingDefiniteAssignment", "", "", "", "")>> ELSE <<>>)
        \o (IF isOptionalProperty /\ hasUndefined
              THEN <<Report("redundantUndefinedInType", "", "", "", "createRemoveUndefinedFixer")>>
              ELSE <<>>)
        \o (IF hasDecorator /\ hasNull /\ ~hasUndefined /\ ~isOptionalProperty
              THEN <<Report("nullUnionIncorrect", "", "", "", "")>> ELSE <<>>)
        \o (IF hasDecorator /\ ~isOptionalProperty /\ ~isDefiniteAssignment
              THEN IF hasUndefined /\ strictNullChecks
                THEN <<Report("undefinedUnionWithoutOptional", "", "", "", "createOptionalFixer")>>
                ELSE IF ~hasNull \/ hasUndefined
                  THEN <<Report("missingOptionalSyntax", "", "", "", "createOptionalFixer")>>
                  ELSE <<>>
              ELSE <<>>)
        \o (IF isOptionalProperty /\ ~hasDecorator
              THEN <<Report("missingOptionalDecorator", "", "", "", "")>> ELSE <<>>)
        \o (IF strictNullChecks /\ hasUndefined /\ ~hasDecorator /\ ~isOptionalProperty
              THEN <<Report("undefinedUnionWithoutDecorator", "", "", "", "")>> ELSE <<>>)
  IN
  IF ds = <<>> THEN <<>>
  ELSE IF node.value /\ ~checkDefaultValues THEN <<>>
  ELSE IF issues # <<>> THEN <<issues[1]>>
  ELSE <<>>

(***************************************************************************)
(* SpecODM: optional-decorator-match on one class property, its fixes      *)
(* applied and the fixed property linted again.                            *)
(***************************************************************************)
ODMDecoratorLists ==
  {<<>>, <<DecoratorCall("IsString", <<>>)>>,
   <<DecoratorCall("IsOptional", <<>>), DecoratorCall("IsString", <<>>)>>,
   <<Decorator("Identifier", "IsOptional", <<>>)>>,
   <<Decorator("MemberCall", "IsOptional", <<>>)>>}

ODMMembers == {StringT, NullT, UndefinedT, Ref("Address")}

ODMTypes ==
  {NullNode} \cup ODMMembers
    \cup {TSUnionType(ms) : ms \in UNION {[1..k -> ODMMembers] : k \in 2..MaxMembers}}

InitODM ==
  /\ typeNode \in ODMTypes
  /\ checker = NoChecker
  /\ decorators \in ODMDecoratorLists
  /\ field \in Properties
  /\ call = NoCall
  /\ reports = <<>>
  /\ fixLoop = FixLoop(0, field, typeNode)
  /\ stack = <<>>

PropertyDefinitionODM ==
  /\ call = NoCall
  /\ reports' = PropertyReportsODM(field, decorators, typeNode)
  /\ call' = Called("optional-decorator-match", TRUE)
  /\ UNCHANGED <<typeNode, checker, decorators, field, fixLoop, stack>>

\* createOptionalFixer: insert ? after the key; the fixed text is linted again
FixAddOptional ==
  /\ call.fn = "optional-decorator-match"
  /\ reports # <<>>
  /\ reports[1].info2 = "createOptionalFixer"
  /\ field' = [field EXCEPT !.optional = TRUE]
  /\ fixLoop' = [fixLoop EXCEPT !.passes = @ + 1]
  /\ reports' = <<>>
  /\ call' = NoCall
  /\ UNCHANGED <<typeNode, checker, decorators, stack>>

\* createRemoveUndefinedFixer: no fix (null) unless the type is a union, else
\* the type's text is replaced; the fixed text is linted again
FixRemoveUndefined ==
  /\ call.fn = "optional-decorator-match"
  /\ reports # <<>>
  /\ reports[1].info2 = "createRemoveUndefinedFixer"
  /\ typeNode # NullNode
  /\ typeNode.type = "TSUnionType"
  /\ typeNode' = ParseUnionText(RemoveUndefinedText(typeNode.kids))
  /\ fixLoop' = [fixLoop EXCEPT !.passes = @ + 1]
  /\ reports' = <<>>
  /\ call' = NoCall
  /\ UNCHANGED <<checker, decorators, field, stack>>

NextODM ==
  \/ PropertyDefinitionODM
  \/ FixAddOptional
  \/ FixRemoveUndefined

SpecODM == InitODM /\ [][NextODM]_vars

VisitedODM == call.fn = "optional-decorator-match"

\* the property as first linted has an optional-marking decorator, no ! and no
\* initializer, and its type is not a null-containing type without undefined
C25Case ==
  /\ VisitedODM
  /\ hasOptionalDecorator(decorators)
  /\ ~fixLoop.original.definite
  /\ ~fixLoop.original.value
  /\ ~(hasNullInType(fixLoop.originalType) /\ ~hasUndefinedInType(fixLoop.originalType))

\* the report carries a fix that changes the text
FixApplies == ENABLED FixAddOptional \/ ENABLED FixRemoveUndefined

\* C25: for every property with an optional-marking decorator, no ! and no
\* initializer whose type is not a null-containing type without undefined,
\* applying the fix of the rule's report again and again reaches, after at most
\* two fixes, a property on which the rule reports nothing: whenever the rule
\* still reports, a fix applies and fewer than two fixes have been made.
C25_AsStated ==
  (C25Case /\ reports # <<>>) => (FixApplies /\ fixLoop.passes < 2)

(***************************************************************************)
(* rules/type-decorator-match.ts.  The rule uses the shared helpers.       *)
(***************************************************************************)
\* @Type(() => C) must name the type, or the element type of an array
TypeMismatchReports(ds, typeAnnotation, actualType, oracle) ==
  LET typeDecorator == FindDecorator(ds, {"CallExpression"}, "Type") IN
  IF typeDecorator = <<>> THEN <<>>
  ELSE LET typeClassName == getTypeDecoratorClassName(typeDecorator[1]) IN
    IF ~Truthy(typeClassName) THEN <<>>
    ELSE IF ~isArrayType(typeAnnotation)
      THEN IF typeAnnotation.type = "TSTypeReference"
        THEN LET tsTypeName == getTypeReferenceName(typeAnnotation.typeName[1]) IN
          IF typeClassName # tsTypeName
            THEN <<Report("typeMismatch", "", tsTypeName, typeClassName, "")>>
            ELSE <<>>
        ELSE <<Report("typeMismatch", "", actualType, typeClassName, "")>>
    ELSE LET elementTypeNode == getArrayElementTypeNode(typeAnnotation) IN
      IF elementTypeNode = NullNode THEN <<>>
      ELSE IF elementTypeNode.type = "TSTypeReference"
        THEN LET elementTypeName == getTypeReferenceName(elementTypeNode.typeName[1]) IN
          IF typeClassName # elementTypeName
            THEN <<Report("typeMismatch", "", elementTypeName \o "[]", typeClassName, "")>>
            ELSE <<>>
        ELSE LET elementType == getTypeString(elementTypeNode, oracle) IN
          IF Truthy(elementType)
            THEN <<Report("typeMismatch", "", elementType \o "[]", typeClassName, "")>>
            ELSE <<>>

\* the class a @Type decorator should name: the base of a nullable union, with
\* its utility types unwrapped
ClassNodeTDM(typeNode_) ==
  LET nullableCheck == isNullableUnion(typeNode_)
      typeToCheck == IF nullableCheck.isNullable /\ nullableCheck.baseType # NullNode
                       THEN nullableCheck.baseType ELSE typeNode_
  IN [typeToCheck |-> typeToCheck, unwrappedType |-> unwrapUtilityTypeForClassName(typeToCheck)]

\* a complex non-array type with @ValidateNested needs @Type
MissingTypeReportsTDM(names, typeAnnotation, oracle) ==
  IF /\ ~isArrayType(typeAnnotation)
     /\ isComplexType(typeAnnotation, oracle)
     /\ "ValidateNested" \in Range(names)
     /\ "Type" \notin Range(names)
     /\ "IsEnum" \notin Range(names)
    THEN LET c == ClassNodeTDM(typeAnnotation) IN
      IF c.unwrappedType.type = "TSTypeReference"
        THEN LET className == getTypeReferenceName(c.unwrappedType.typeName[1])
                 displayType == getTypeString(c.typeToCheck, oracle)
             IN <<Report("missingTypeDecorator", "",
                         IF Truthy(displayType) THEN displayType ELSE className,
                         className, "")>>
        ELSE <<>>
    ELSE <<>>

\* an array of complex elements with @ValidateNested needs @Type
MissingArrayTypeReportsTDM(ds, names, typeAnnotation, oracle) ==
  LET elementTypeNode == getArrayElementTypeNode(typeAnnotation)
      hasIsEnumWithEach ==
        /\ "IsEnum" \in Range(names)
        /\ \E i \in DOMAIN ds :
             ds[i].form = "CallExpression" /\ ds[i].name = "IsEnum" /\ hasEachOption(ds[i])
  IN
  IF /\ isArrayType(typeAnnotation)
     /\ "ValidateNested" \in Range(names)
     /\ "Type" \notin Range(names)
     /\ elementTypeNode # NullNode
    THEN IF isComplexType(elementTypeNode, oracle) /\ ~hasIsEnumWithEach
      THEN LET c == ClassNodeTDM(elementTypeNode) IN
        IF c.unwrappedType.type = "TSTypeReference"
          THEN LET displayType == getTypeString(elementTypeNode, oracle) IN
            <<Report("missingTypeDecorator", "",
                     (IF displayType = NULL THEN "null" ELSE displayType) \o "[]",
                     getTypeReferenceName(c.unwrappedType.typeName[1]), "")>>
          ELSE <<>>
      ELSE <<>>
    ELSE <<>>

\* everything the PropertyDefinition visitor of type-decorator-match reports
PropertyReportsTDM(ds, typeAnnotation, oracle) ==
  IF ds = <<>> THEN <<>>
  ELSE IF typeAnnotation = NullNode THEN <<>>
  ELSE LET names == DecoratorNames(ds)
           actualType == getTypeString(typeAnnotation, oracle)
       IN
    IF ~Truthy(actualType) THEN <<>>
    ELSE TypeMismatchReports(ds, typeAnnotation, actualType, oracle)
           \o MissingTypeReportsTDM(names, typeAnnotation, oracle)
           \o MissingArrayTypeReportsTDM(ds, names, typeAnnotation, oracle)

(***************************************************************************)
(* SpecTDM: type-decorator-match on one class property; the @Type          *)
(* decorator its missingTypeDecorator message asks for is added and the    *)
(* property is linted again.                                               *)
(***************************************************************************)
TDMDecorators ==
  {DecoratorCall("Type", <<ArgArrow("Address")>>),
   DecoratorCall("Type", <<ArgArrow("Number")>>),
   DecoratorCall("Type", <<ArgArrow("String")>>),
   DecoratorCall("Type", <<ArgArrow("Boolean")>>),
   DecoratorCall("Type", <<>>),
   Decorator("Identifier", "Type", <<>>),
   DecoratorCall("ValidateNested", <<>>),
   DecoratorCall("ValidateNested", <<EachTrue>>),
   DecoratorCall("IsEnum", <<ArgIdentifier("Role")>>),
   DecoratorCall("IsEnum", <<ArgIdentifier("Role"), EachTrue>>),
   DecoratorCall("IsDefined", <<>>)}

TDMDecoratorLists == UNION {[1..k -> TDMDecorators] : k \in 0..MaxDecorators}

TDMTypes == DTMTypes \cup ArrayForms(BooleanT)

InitTDM ==
  /\ typeNode \in TDMTypes
  /\ checker \in DTMOracles(typeNode)
  /\ decorators \in TDMDecoratorLists
  /\ field = NoProperty
  /\ call = NoCall
  /\ reports = <<>>
  /\ fixLoop = FixLoop(0, field, typeNode)
  /\ stack = <<>>

PropertyDefinitionTDM ==
  /\ call = NoCall
  /\ reports' = PropertyReportsTDM(decorators, typeNode, checker)
  /\ call' = Called("type-decorator-match", TRUE)
  /\ UNCHANGED <<typeNode, checker, decorators, field, fixLoop, stack>>

\* the message of missingTypeDecorator: "... requires @Type(() => {{className}})
\* decorator"; the decorator is added to the property, which is linted again
AddTypeDecorator ==
  /\ call.fn = "type-decorator-match"
  /\ fixLoop.passes = 0
  /\ \E i \in DOMAIN reports :
       /\ reports[i].messageId = "missingTypeDecorator"
       /\ decorators' =
            Append(decorators, DecoratorCall("Type", <<ArgArrow(reports[i].info)>>))
  /\ fixLoop' = [fixLoop EXCEPT !.passes = @ + 1]
  /\ reports' = <<>>
  /\ call' = NoCall
  /\ UNCHANGED <<typeNode, checker, field, stack>>

NextTDM ==
  \/ PropertyDefinitionTDM
  \/ AddTypeDecorator

SpecTDM == InitTDM /\ [][NextTDM]_vars

VisitedTDM == call.fn = "type-decorator-match"

WrapperClass(category) ==
  IF category = "number" THEN "Number"
  ELSE IF category = "string" THEN "String"
  ELSE IF category = "boolean" THEN "Boolean"
  ELSE NULL

IsPrimitiveKeyword(t) ==
  t.type \in {"TSStringKeyword", "TSNumberKeyword", "TSBooleanKeyword"}

\* the primitive type of the field, or of the elements of an array field
C21Primitive ==
  IF typeNode = NullNode THEN NullNode
  ELSE IF IsPrimitiveKeyword(typeNode) THEN typeNode
  ELSE IF isArrayType(typeNode) /\ getArrayElementTypeNode(typeNode) # NullNode
          /\ IsPrimitiveKeyword(getArrayElementTypeNode(typeNode))
    THEN getArrayElementTypeNode(typeNode)
  ELSE NullNode

\* the class the field's @Type decorator names, NULL when it has none
C21Class ==
  LET typeDecorator == FindDecorator(decorators, {"CallExpression"}, "Type") IN
  IF typeDecorator = <<>> THEN NULL ELSE getTypeDecoratorClassName(typeDecorator[1])

\* C21: type-decorator-match reports no typeMismatch when @Type(() => C) names
\* the wrapper class of the field's primitive type (Number for number, String
\* for string, Boolean for boolean) or of the element type of an array of that
\* primitive, with no checker; it reports typeMismatch when C is a different
\* wrapper class.
C21_AsStated ==
  (/\ VisitedTDM
   /\ fixLoop.passes = 0
   /\ ~checker.present
   /\ C21Primitive # NullNode
   /\ C21Class \in {"Number", "String", "Boolean"})
    => (Reported("typeMismatch")
          <=> C21Class # WrapperClass(getTypeString(C21Primitive, checker)))

\* C30: whenever type-decorator-match reports missingTypeDecorator with class
\* name C for a field, the same field with @Type(() => C) added gets no report
\* from the rule; this covers nullable fields, utility-wrapped fields and arrays
\* of those.
C30_AsStated ==
  (VisitedTDM /\ fixLoop.passes = 1) => reports = <<>>

(***************************************************************************)
(* The recursive helpers call by call: every activation of getTypeString,  *)
(* isComplexType, analyzeUnionType and checkTypeMatch is a frame of the    *)
(* stack; unwrapUtilityTypeForClassName is a loop in one frame.            *)
(***************************************************************************)
Frame(f, n, d) == [fn |-> f, node |-> n, decorator |-> d, next |-> 1]

Callee(f, n) == [fn |-> f, node |-> n]

\* for (const type of unwrapped.types) getTypeString(type), left at the first
\* primitive member
RECURSIVE IntersectionCalls(_, _, _)
IntersectionCalls(types, i, oracle) ==
  IF i > Len(types) THEN <<>>
  ELSE <<Callee("getTypeString", types[i])>>
         \o (IF IsPrimitiveName(getTypeString(types[i], oracle))
               THEN <<>>
               ELSE IntersectionCalls(types, i + 1, oracle))

\* elements.some((element) => isComplexType(element)), left at the first complex one
RECURSIVE TupleCalls(_, _, _)
TupleCalls(elements, i, oracle) ==
  IF i > Len(elements) THEN <<>>
  ELSE <<Callee("isComplexType", elements[i])>>
         \o (IF isComplexType(elements[i], oracle)
               THEN <<>>
               ELSE TupleCalls(elements, i + 1, oracle))

\* the loop of analyzeUnionType: isComplexType for every member that is not
\* null or undefined, getTypeString for those that are not complex
RECURSIVE UnionCalls(_, _, _)
UnionCalls(types, i, oracle) ==
  IF i > Len(types) THEN <<>>
  ELSE IF types[i].type \in {"TSNullKeyword", "TSUndefinedKeyword"}
    THEN UnionCalls(types, i + 1, oracle)
  ELSE <<Callee("isComplexType", types[i])>>
         \o (IF isComplexType(types[i], oracle)
               THEN <<>>
               ELSE <<Callee("getTypeString", types[i])>>)
         \o UnionCalls(types, i + 1, oracle)

getTypeStringCalls(node, oracle) ==
  IF oracle.present /\ Truthy(resolveTypeWithChecker(node, oracle)) THEN <<>>
  ELSE LET unwrapped == unwrapReadonlyOperator(node) IN
    IF unwrapped.type = "TSIntersectionType"
      THEN IntersectionCalls(unwrapped.kids, 1, oracle)
      ELSE <<>>

analyzeUnionTypeCalls(node, oracle) ==
  IF node.type # "TSUnionType" THEN <<>> ELSE UnionCalls(node.kids, 1, oracle)

\* a variant of ReferenceCalls: a utility type is looked at again as a whole
ReferenceCallsSameNode(unwrapped, oracle) ==
  IF getUtilityTypeArgument(unwrapped).found
    THEN <<Callee("isComplexType", unwrapped)>>
    ELSE <<>>

\* the calls of the TSTypeReference branch of isComplexType
ReferenceCalls(unwrapped, oracle) ==
  LET typeName == getTypeReferenceName(unwrapped.typeName[1])
      utilityTypeInfo == getUtilityTypeArgument(unwrapped)
  IN
  IF typeName \in nonValidatableTypes THEN <<>>
  ELSE IF IsEnumReference(unwrapped, oracle) THEN <<>>
  ELSE IF utilityTypeInfo.found
    THEN IF /\ utilityTypeInfo.utilityType \in {"Pick", "Omit"}
            /\ oracle.present
            /\ Truthy(resolveTypeWithChecker(unwrapped, oracle))
      THEN <<>>
      ELSE <<Callee("isComplexType", utilityTypeInfo.typeArgument)>>
  ELSE (IF typeName = "Record" /\ Len(unwrapped.kids) >= 2
          THEN <<Callee("getTypeString", unwrapped.kids[2])>>
          ELSE <<>>)
       \o (IF ~isRecordWithPrimitiveValue(unwrapped, oracle)
              /\ typeName = "Array" /\ unwrapped.kids # <<>>
             THEN <<Callee("isComplexType", unwrapped.kids[1])>>
             ELSE <<>>)

isComplexTypeCalls(node, oracle) ==
  LET unwrapped == unwrapReadonlyOperator(node) IN
  IF unwrapped.type = "TSTypeLiteral" THEN <<>>
  ELSE IF isUnionOfLiterals(unwrapped) THEN <<>>
  ELSE IF unwrapped.type = "TSUnionType" THEN <<Callee("analyzeUnionType", unwrapped)>>
  ELSE IF unwrapped.type = "TSIntersectionType"
    THEN IntersectionCalls(unwrapped.kids, 1, oracle)
  ELSE IF unwrapped.type = "TSArrayType" THEN <<Callee("isComplexType", unwrapped.kids[1])>>
  ELSE IF unwrapped.type = "TSTupleType"
    THEN TupleCalls(getTupleElementTypes(unwrapped), 1, oracle)
  ELSE IF unwrapped.type = "TSTypeReference" THEN ReferenceCalls(unwrapped, oracle)
  ELSE <<>>

checkTypeMatchCalls(decorator, typeAnnotation, oracle) ==
  LET utilityTypeInfo == getUtilityTypeArgument(typeAnnotation)
      nullableCheck == isNullableUnion(typeAnnotation)
      nullableCalls ==
        IF nullableCheck.isNullable /\ nullableCheck.baseType # NullNode
          THEN <<Callee("getTypeString", nullableCheck.baseType)>>
          ELSE <<>>
  IN
  IF decoratorTypeMap(decorator) = <<>> THEN <<>>
  ELSE IF decorator = "IsEnum" THEN <<>>
  ELSE IF utilityTypeInfo.found /\ utilityTypeInfo.utilityType # "ReadonlyArray"
    THEN <<Callee("getTypeString", utilityTypeInfo.typeArgument)>>
           \o (IF Truthy(getTypeString(utilityTypeInfo.typeArgument, oracle))
                 THEN <<Callee("checkTypeMatch", utilityTypeInfo.typeArgument)>>
                 ELSE nullableCalls)
  ELSE nullableCalls

\* the helper calls one activation makes, in the order it makes them
SubCalls(frame, oracle) ==
  IF frame.fn = "getTypeString" THEN getTypeStringCalls(frame.node, oracle)
  ELSE IF frame.fn = "isComplexType" THEN isComplexTypeCalls(frame.node, oracle)
  ELSE IF frame.fn = "analyzeUnionType" THEN analyzeUnionTypeCalls(frame.node, oracle)
  ELSE IF frame.fn = "checkTypeMatch"
    THEN checkTypeMatchCalls(frame.decorator, frame.node, oracle)
  ELSE <<>>

(***************************************************************************)
(* SpecCalls: one helper is called on a type annotation and runs to its    *)
(* return, one call, loop iteration or return at a time.                   *)
(***************************************************************************)
RecursiveHelpers ==
  {"getTypeString", "isComplexType", "analyzeUnionType", "checkTypeMatch",
   "unwrapUtilityTypeForClassName"}

CallDecorators == {"IsString", "IsEnum", "Custom"}

Top == stack[Len(stack)]

InitCalls ==
  /\ typeNode \in MatchTypes
  /\ checker \in DTMOracles(typeNode)
  /\ decorators = <<>>
  /\ call = NoCall
  /\ reports = <<>>
  /\ field = NoProperty
  /\ fixLoop = NoFixLoop
  /\ stack = <<>>

CallHelper ==
  /\ call = NoCall
  /\ stack = <<>>
  /\ \E f \in RecursiveHelpers :
       \E d \in (IF f = "checkTypeMatch" THEN CallDecorators ELSE {""}) :
         /\ stack' = <<Frame(f, typeNode, d)>>
         /\ call' = [fn |-> f, decorator |-> d, actualType |-> "", out |-> "running"]
  /\ UNCHANGED <<typeNode, checker, decorators, reports, field, fixLoop>>

\* the top activation makes its next call
Descend ==
  /\ stack # <<>>
  /\ Len(stack) < MaxStack
  /\ Top.next <= Len(SubCalls(Top, checker))
  /\ stack' = [stack EXCEPT ![Len(stack)].next = @ + 1]
                \o <<Frame(SubCalls(Top, checker)[Top.next].fn,
                           SubCalls(Top, checker)[Top.next].node, Top.decorator)>>
  /\ UNCHANGED <<typeNode, checker, decorators, call, reports, field, fixLoop>>

\* one iteration of the loop of unwrapUtilityTypeForClassName
UnwrapIteration ==
  /\ stack # <<>>
  /\ Top.fn = "unwrapUtilityTypeForClassName"
  /\ getUtilityTypeArgument(Top.node).found
  /\ stack' = [stack EXCEPT ![Len(stack)].node = getUtilityTypeArgument(Top.node).typeArgument]
  /\ UNCHANGED <<typeNode, checker, decorators, call, reports, field, fixLoop>>

\* the top activation has made all its calls and returns
Return ==
  /\ stack # <<>>
  /\ Top.next > Len(SubCalls(Top, checker))
  /\ ~(Top.fn = "unwrapUtilityTypeForClassName" /\ getUtilityTypeArgument(Top.node).found)
  /\ stack' = SubSeq(stack, 1, Len(stack) - 1)
  /\ call' = IF Len(stack) = 1 THEN [call EXCEPT !.out = "returned"] ELSE call
  /\ UNCHANGED <<typeNode, checker, decorators, reports, field, fixLoop>>

NextCalls ==
  \/ CallHelper
  \/ Descend
  \/ UnwrapIteration
  \/ Return

\* a call that can go on does go on
SpecCalls == InitCalls /\ [][NextCalls]_vars /\ WF_vars(NextCalls)

\* the number of nodes on the longest path of a type expression
RECURSIVE Depth(_)
Depth(node) ==
  IF node.kids = <<>> THEN 1
  ELSE 1 + (CHOOSE m \in {Depth(node.kids[i]) : i \in DOMAIN node.kids} :
              \A i \in DOMAIN node.kids : Depth(node.kids[i]) <= m)

Activations(f) == Cardinality({i \in DOMAIN stack : stack[i].fn = f})

Returned == call.fn \in RecursiveHelpers /\ stack = <<>> /\ call.out = "returned"

\* no helper is active more often than the expression is deep, and the stack is
\* at most twice as deep as the expression
DepthBounded ==
  /\ \A f \in RecursiveHelpers : Activations(f) <= Depth(typeNode)
  /\ Len(stack) <= 2 * Depth(typeNode)

\* C24: getTypeString, isComplexType, analyzeUnionType, checkTypeMatch and
\* unwrapUtilityTypeForClassName terminate on every finite type expression,
\* with their recursion depth bounded by the depth of the expression, with or
\* without an oracle.
C24_Terminates == [](DepthBounded) /\ <>(Returned)

C24_Witness ==
  /\ typeNode = TSArrayType(TSUnionType(<<StringT, NumberT>>))
  /\ Len(stack) = 4
  /\ Top.fn = "isComplexType"
  /\ Top.node = StringT

====
